---- MODULE Spec2Model ----
(***************************************************************************)
(* Octodon: a static Mastodon-compatible API served by a Cloudflare        *)
(* Worker, with a GitHub OAuth bridge for owner-only posting.              *)
(*                                                                         *)
(* The model follows the bridge worker (src/unnamed/part_002), one action  *)
(* per route of its fetch handler, and the state-signing helpers           *)
(* (src/unnamed/part_003).  Two more workers of the repository are         *)
(* modelled where they differ: the cursor pagination of src/src/index.ts   *)
(* and the mock authorize route of the read-only src/src/worker.ts.        *)
(* Strings that the code inspects character by                             *)
(* character (redirect URIs, tokens, post bodies) are sequences of         *)
(* one-character strings; strings it only compares are TLA+ strings.       *)
(* An optional value (null / undefined in the code) is <<>> when absent    *)
(* and <<v>> when present.                                                 *)
(***************************************************************************)
EXTENDS Integers, Sequences, FiniteSets, TLC

VARIABLES
  now,        \* the clock read by Date.now(), in milliseconds
  presented,  \* history: the redirect URIs received by GET /oauth/authorize
  consumed,   \* history: encoded states that a callback has accepted
  store,      \* the content store: the committed files, in commit order
  env,        \* the worker's bindings: the GitHub OAuth configuration
  snapshot,   \* the published posts.json (env.DATA), absent when never built
  data,       \* what the data request in flight has loaded from env.DATA
  seen,       \* history: the snapshots current since the last data request arrived
  flow,       \* what the client going through the OAuth flow holds so far
  req,        \* the request handled last
  resp,       \* the response to it
  calls       \* the outbound calls that request made, in order

vars == <<now, presented, consumed, store, env, snapshot, data, seen, flow, req, resp, calls>>

----------------------------------------------------------------------------
(* Bounds of the model *)

StartNow == 1000000
MaxElapsed == 601000
MaxConsumed == 1
MaxCommits == 2
MaxPosts == 5
MaxFiles == 3

----------------------------------------------------------------------------
(* Optional values and strings *)

None == <<>>
Some(v) == <<v>>
IsSome(o) == Len(o) = 1

\* A character outside Latin-1 (code point above U+00FF).
WideChar == "U+20AC"

Includes(s, c) == \E i \in 1..Len(s) : s[i] = c

StartsWith(s, p) == Len(p) <= Len(s) /\ SubSeq(s, 1, Len(p)) = p

RECURSIVE Flatten(_)
Flatten(ss) == IF ss = <<>> THEN <<>> ELSE Head(ss) \o Flatten(Tail(ss))

EncodeChar(c) ==
  CASE c = "+" -> <<"%", "2", "B">>
    [] c = "?" -> <<"%", "3", "F">>
    [] c = "&" -> <<"%", "2", "6">>
    [] c = "=" -> <<"%", "3", "D">>
    [] c = "/" -> <<"%", "2", "F">>
    [] c = ":" -> <<"%", "3", "A">>
    [] c = "%" -> <<"%", "2", "5">>
    [] c = WideChar -> <<"%", "E", "2", "%", "8", "2", "%", "A", "C">>
    [] OTHER -> <<c>>

\* encodeURIComponent: every character outside the unreserved set is escaped.
EncodeURIComponent(s) == Flatten([i \in 1..Len(s) |-> EncodeChar(s[i])])

----------------------------------------------------------------------------
(* Configuration (env) *)

OWNER_GITHUB_USERNAME == "octocat"
ServerSecret == "server-secret"

ExpiryMs == 600000

\* The bindings once GitHub OAuth is set up, and before it is: the secrets
\* and the owner login are then undefined.
ConfiguredEnv ==
  [GITHUB_CLIENT_ID |-> Some("client-id"),
   GITHUB_CLIENT_SECRET |-> Some("client-secret"),
   OWNER_GITHUB_USERNAME |-> Some(OWNER_GITHUB_USERNAME)]

UnconfiguredEnv ==
  [GITHUB_CLIENT_ID |-> None,
   GITHUB_CLIENT_SECRET |-> None,
   OWNER_GITHUB_USERNAME |-> None]

----------------------------------------------------------------------------
(* The published data: posts.json in the bucket (bridge worker), or the    *)
(* index bundled with the script (src/index.ts).  Post ids are the decimal *)
(* strings of millisecond timestamps; the model writes them "P1", "P2", .. *)
(* in the order of their timestamps.                                       *)

IdNames == <<"P1", "P2", "P3", "P4", "P5", "P6", "P7", "P8", "P9">>

Post(k) == [id |-> IdNames[k], created_at |-> k]

\* The posts numbered in S, newest first: the order the build writes.
RECURSIVE NewestFirst(_)
NewestFirst(S) ==
  IF S = {} THEN <<>>
  ELSE LET m == CHOOSE k \in S : \A j \in S : j <= k
       IN <<Post(m)>> \o NewestFirst(S \ {m})

AccountId == "acct-1"

\* The single account of the instance.
Account == [id |-> AccountId, username |-> "owner", acct |-> "owner"]

\* found: env.DATA.get returns an object; valid: its body parses as JSON.
Snapshot(found, valid, statuses) ==
  [found |-> found, valid |-> valid, account |-> Account, statuses |-> statuses]

PublishedSnapshot == Snapshot(TRUE, TRUE, NewestFirst(1..3))

----------------------------------------------------------------------------
(* The state value carried through the identity provider.                  *)
(* A JSON object is the sequence of its <<key, value>> members in          *)
(* insertion order, which is also the text JSON.stringify writes.          *)

JsonGet(obj, k) ==
  LET idx == {i \in 1..Len(obj) : obj[i][1] = k}
  IN IF idx = {} THEN None
     ELSE Some(obj[CHOOSE i \in idx : \A j \in idx : j <= i][2])

JsonHasWide(obj) ==
  \E i \in 1..Len(obj) : obj[i][1] = "clientRedirect" /\ Includes(obj[i][2], WideChar)

\* btoa: throws InvalidCharacterError on a character above U+00FF.
Btoa(text) ==
  IF JsonHasWide(text) THEN [ok |-> FALSE, val |-> [b64 |-> FALSE, text |-> <<>>]]
  ELSE [ok |-> TRUE, val |-> [b64 |-> TRUE, text |-> text]]

\* JSON.parse(atob(s)): throws when s is not base64 of a JSON text.
ParseState(enc) ==
  IF enc.b64 THEN [ok |-> TRUE, val |-> enc.text]
  ELSE [ok |-> FALSE, val |-> <<>>]

Garbage == [b64 |-> FALSE, text |-> <<>>]

\* crypto.subtle.sign('HMAC', key, data): modelled as an injective pairing.
HmacSha256(secret, text) == <<secret, text>>

\* const { sig, ...data } = state
WithoutSig(obj) == SelectSeq(obj, LAMBDA m : m[1] # "sig")

----------------------------------------------------------------------------
(* The identity provider (GitHub): which token a code is exchanged for,    *)
(* and which login a token authenticates.                                  *)

TokOwner == <<"g", "o">>
TokOwnerPlus == <<"g", "+", "o">>
TokCase == <<"g", "c">>
TokOther == <<"g", "m">>
TokBad == <<"x">>

GithubExchange(code) ==
  CASE code = "code-owner" -> Some(TokOwner)
    [] code = "code-owner-plus" -> Some(TokOwnerPlus)
    [] code = "code-case" -> Some(TokCase)
    [] OTHER -> None

\* None: bad credentials, octokit throws.
GithubLogin(token) ==
  CASE token = TokOwner -> Some("octocat")
    [] token = TokOwnerPlus -> Some("octocat")
    [] token = TokCase -> Some("Octocat")
    [] token = TokOther -> Some("mallory")
    [] OTHER -> None

----------------------------------------------------------------------------
(* Requests, responses and outbound calls *)

NoTokenBody == [valid |-> TRUE, grant_type |-> None, code |-> None, client_id |-> None]

NoWriteBody == [valid |-> TRUE, status |-> None, visibility |-> None, sensitive |-> None]

NoAppBody == [valid |-> TRUE, client_name |-> None, redirect_uris |-> None, website |-> None]

BlankReq ==
  [route |-> "none", redirect_uri |-> None, code |-> None, state |-> None,
   tbody |-> NoTokenBody, auth |-> None, wbody |-> NoWriteBody,
   seenBefore |-> FALSE, t |-> 0,
   client_id |-> None, response_type |-> None, abody |-> NoAppBody,
   id |-> "", limit |-> None, max_id |-> None, since_id |-> None,
   min_id |-> None, path |-> <<>>, acct |-> None, pinned |-> None,
   obj |-> <<>>, secret |-> ""]

\* status 0: an exception left the handler uncaught.
BlankResp ==
  [route |-> "none", status |-> 0, text |-> "", location |-> None,
   state |-> None, access_token |-> None, token_type |-> "", scope |-> "",
   created_at |-> 0, entity |-> None, app |-> None, page |-> <<>>]

\* The client of the OAuth flow: how far it has come, the state it was
\* given, the Location it was redirected to, the token it holds; issued is
\* the access token the provider gave the bridge in the callback.  A client
\* that reads the timeline page by page holds the limit it asks with, the
\* cursor of the next request and the posts received so far.
NoFlow ==
  [stage |-> "start", state |-> None, location |-> None, token |-> None,
   issued |-> None, limit |-> None, cursor |-> None, pages |-> <<>>]

Reply(route, status, text) ==
  [BlankResp EXCEPT !.route = route, !.status = status, !.text = text]

Call(op, code, token, login, ok) ==
  [op |-> op, code |-> code, token |-> token, login |-> login, ok |-> ok,
   file |-> None]

\* env.DATA.get('posts.json') and object.json()
LoadCall(snap) == Call("DATA.get", "", None, "", snap.found /\ snap.valid)

CommitCall(token, file, ok) ==
  [Call("createOrUpdateFileContents", "", Some(token), "", ok) EXCEPT
     !.file = Some(file)]

Init ==
  /\ now = StartNow
  /\ presented = {}
  /\ consumed = {}
  /\ store = <<>>
  /\ env = ConfiguredEnv
  /\ snapshot = PublishedSnapshot
  /\ data = None
  /\ seen = {}
  /\ flow = NoFlow
  /\ req = BlankReq
  /\ resp = BlankResp
  /\ calls = <<>>

----------------------------------------------------------------------------
(* The clock *)

TickSteps == {599000, 600000, 600001, 601000}

Tick ==
  /\ \E d \in TickSteps :
       /\ now + d <= StartNow + MaxElapsed
       /\ now' = now + d
  /\ UNCHANGED <<presented, consumed, store, env, snapshot, data, seen, req, resp, calls, flow>>

----------------------------------------------------------------------------
(* POST /api/v1/apps *)

\* a || b on strings: b when a is undefined or empty.
OrElse(a, b) == IF a = None \/ a[1] = "" THEN b ELSE a[1]

OutOfBand == "urn:ietf:wg:oauth:2.0:oob"

PublicCredential == "octodon_public_readonly"

AppDescriptor(body, clientId, clientSecret) ==
  [id |-> "1",
   name |-> OrElse(body.client_name, "App"),
   website |-> IF body.website = None \/ body.website[1] = "" THEN None
               ELSE body.website,
   redirect_uri |-> OrElse(body.redirect_uris, OutOfBand),
   client_id |-> clientId,
   client_secret |-> clientSecret,
   vapid_key |-> ""]

\* A registration that derives the credentials from the client's name.
AppResponsePerClient(body) ==
  IF ~body.valid
  THEN Reply("apps", 0, "SyntaxError")
  ELSE [Reply("apps", 200, "") EXCEPT
          !.app = Some(AppDescriptor(body, OrElse(body.client_name, "App"),
                                     PublicCredential))]

\* The response of the apps route; request.json() is not guarded, so a body
\* that is no JSON object leaves the handler as an exception.
AppResponse(body) ==
  IF ~body.valid
  THEN Reply("apps", 0, "SyntaxError")
  ELSE [Reply("apps", 200, "") EXCEPT
          !.app = Some(AppDescriptor(body, PublicCredential, PublicCredential))]

AppBodies ==
  {[NoAppBody EXCEPT !.valid = FALSE]}
  \cup [valid : {TRUE},
        client_name : {None, Some(""), Some("Elk"), Some("Ivory")},
        redirect_uris : {None, Some(""), Some("https://elk.zone/cb"), Some(OutOfBand)},
        website : {None, Some("https://elk.zone")}]

AppRegistration ==
  \E body \in AppBodies :
    /\ req' = [BlankReq EXCEPT !.route = "apps", !.abody = body, !.t = now]
    /\ resp' = AppResponse(body)
    /\ calls' = <<>>
    /\ UNCHANGED <<now, presented, consumed, store, env, snapshot, data, seen, flow>>

----------------------------------------------------------------------------
(* GET /oauth/authorize *)

UriPlain == <<"h", ":", "/", "c", "b">>
UriQuery == <<"h", ":", "/", "c", "b", "?", "a", "=", "1">>
UriWide == <<"h", ":", "/", WideChar>>
UriRelative == <<"c", "b">>

\* new URL(s) succeeds: s has a scheme.  Response.redirect throws a
\* TypeError otherwise.
IsUrl(s) == Includes(s, ":")

\* An origin without a path, as in https://elk.zone
UriBare == <<"h", ":">>

\* The href of new URL(s), which Response.redirect writes to Location: an
\* origin with an empty path gets the path "/".
UrlHref(s) ==
  LET i == CHOOSE k \in 1..Len(s) : s[k] = ":" /\ \A j \in 1..(k - 1) : s[j] # ":"
  IN IF i < Len(s) /\ s[i + 1] = "/" THEN s
     ELSE SubSeq(s, 1, i) \o <<"/">> \o SubSeq(s, i + 1, Len(s))

RedirectInputs == {None, Some(<<>>), Some(UriPlain), Some(UriWide)}

IsMissing(p) == p = None \/ p[1] = <<>>

GithubAuthorizeUrl == <<"https://github.com/login/oauth/authorize">>

BridgeState(redirectUri, t) == << <<"clientRedirect", redirectUri>>, <<"ts", t>> >>

\* The response of the authorize route to redirect_uri = p at clock t.
AuthorizeResponse(p, t) ==
  IF IsMissing(p)
  THEN Reply("authorize", 400, "Bad Request")
  ELSE LET enc == Btoa(BridgeState(p[1], t))
       IN IF ~enc.ok
          THEN Reply("authorize", 0, "InvalidCharacterError")
          ELSE [Reply("authorize", 302, "") EXCEPT
                  !.location = Some(GithubAuthorizeUrl),
                  !.state = Some(enc.val),
                  !.scope = "repo"]

Authorize ==
  \E p \in RedirectInputs :
    /\ req' = [BlankReq EXCEPT !.route = "authorize", !.redirect_uri = p, !.t = now]
    /\ resp' = AuthorizeResponse(p, now)
    /\ presented' = IF IsMissing(p) THEN presented
                    ELSE presented \cup {p[1]}
    /\ calls' = <<>>
    /\ UNCHANGED <<now, consumed, store, env, snapshot, data, seen, flow>>

----------------------------------------------------------------------------
(* GET /oauth/github/callback *)

IsExpiredInclusive(state, t) ==
  LET ts == JsonGet(state, "ts")
  IN IsSome(ts) /\ t - ts[1] >= ExpiryMs

\* Date.now() - state.ts > 600000; a missing ts makes the difference NaN.
IsExpired(state, t) ==
  LET ts == JsonGet(state, "ts")
  IN IsSome(ts) /\ t - ts[1] > ExpiryMs

NotOwnerIgnoringCase(login) == login \notin {"octocat", "Octocat"}

\* user.login !== env.OWNER_GITHUB_USERNAME
NotOwner(login) == Some(login) # env.OWNER_GITHUB_USERNAME

SeparatorAlwaysQuestion(uri) == "?"

Separator(uri) == IF Includes(uri, "?") THEN "&" ELSE "?"

\* A redirect that writes the token into the query as it is.
ClientRedirectUrlRaw(uri, token) ==
  uri \o <<Separator(uri)>> \o <<"c", "o", "d", "e", "=">> \o token

ClientRedirectUrl(uri, token) ==
  uri \o <<Separator(uri)>> \o <<"c", "o", "d", "e", "=">> \o EncodeURIComponent(token)

CallbackReply(status, text) == Reply("callback", status, text)

\* A callback that hands whatever the provider answered to the identity
\* lookup, which fails without a token.
CallbackAfterStateUnchecked(state, code, net) ==
  IF net = "token-fetch-throws"
  THEN [resp |-> CallbackReply(500, "OAuth error"),
        calls |-> <<Call("access_token", code, None, "", FALSE)>>]
  ELSE [resp |-> CallbackReply(500, "OAuth error"),
        calls |-> <<Call("access_token", code, GithubExchange(code), "", TRUE),
                    Call("getAuthenticated", "", GithubExchange(code), "", FALSE)>>]

\* A callback that asks the provider for the token again when the first
\* request fails.
CallbackAfterStateRetry(state, code, net) ==
  IF net = "token-fetch-throws"
  THEN [resp |-> CallbackReply(500, "OAuth error"),
        calls |-> <<Call("access_token", code, None, "", FALSE),
                    Call("access_token", code, None, "", FALSE)>>]
  ELSE [resp |-> CallbackReply(500, "GitHub auth failed"),
        calls |-> <<Call("access_token", code, GithubExchange(code), "", TRUE)>>]

\* What the handler does once the state is decoded and not expired:
\* exchange the code, look the login up, gate on the owner, redirect.
CallbackAfterState(state, code, net) ==
  IF net = "token-fetch-throws"
  THEN [resp |-> CallbackReply(500, "OAuth error"),
        calls |-> <<Call("access_token", code, None, "", FALSE)>>]
  ELSE
    LET tok == GithubExchange(code)
        c1 == Call("access_token", code, tok, "", TRUE)
    IN IF tok = None
       THEN [resp |-> CallbackReply(500, "GitHub auth failed"), calls |-> <<c1>>]
       ELSE
         LET login == IF net = "user-fetch-throws" THEN None ELSE GithubLogin(tok[1])
             c2 == Call("getAuthenticated", "", tok,
                        IF login = None THEN "" ELSE login[1], login # None)
             cr == JsonGet(state, "clientRedirect")
         IN IF login = None
            THEN [resp |-> CallbackReply(500, "OAuth error"), calls |-> <<c1, c2>>]
            ELSE IF NotOwner(login[1])
            THEN [resp |-> CallbackReply(403, "Unauthorized: Not the instance owner"),
                  calls |-> <<c1, c2>>]
            ELSE IF cr = None \/ ~IsUrl(ClientRedirectUrl(cr[1], tok[1]))
            THEN [resp |-> CallbackReply(500, "OAuth error"), calls |-> <<c1, c2>>]
            ELSE [resp |-> [CallbackReply(302, "") EXCEPT
                              !.location = Some(UrlHref(ClientRedirectUrl(cr[1], tok[1])))],
                  calls |-> <<c1, c2>>]

CallbackOutcome(codeP, stateP, net, t) ==
  IF codeP = None \/ stateP = None
  THEN [resp |-> CallbackReply(400, "Bad Request"), calls |-> <<>>]
  ELSE
    LET parsed == ParseState(stateP[1])
    IN IF ~parsed.ok
       THEN [resp |-> CallbackReply(500, "OAuth error"), calls |-> <<>>]
       ELSE IF IsExpired(parsed.val, t)
       THEN [resp |-> CallbackReply(400, "State expired"), calls |-> <<>>]
       ELSE CallbackAfterState(parsed.val, codeP[1], net)

CodeInputs ==
  {None, Some("code-owner"), Some("code-owner-plus"), Some("code-case"),
   Some("code-bad")}

NetInputs == {"ok", "token-fetch-throws", "user-fetch-throws"}

\* The JSON objects a client may present as state: those the authorize route
\* writes, and objects of the client's own making (fields missing, a sig
\* member added, a redirect URI that was never given to the bridge).
StateObjects ==
  {BridgeState(UriPlain, StartNow),
   BridgeState(UriQuery, StartNow),
   BridgeState(UriRelative, StartNow),
   <<>>,
   << <<"clientRedirect", UriPlain>> >>,
   BridgeState(UriPlain, StartNow)
     \o << <<"sig", HmacSha256(ServerSecret, BridgeState(UriPlain, StartNow))>> >>,
   BridgeState(UriPlain, StartNow)
     \o << <<"sig", HmacSha256("guess", BridgeState(UriPlain, StartNow))>> >>}

StateInputs ==
  {None, Some(Garbage)} \cup {Some([b64 |-> TRUE, text |-> o]) : o \in StateObjects}

\* A callback that keeps the accepted states and refuses a second use.
ProviderCallbackOnce ==
  \E codeP \in CodeInputs, stateP \in StateInputs, net \in NetInputs :
    LET used == stateP # None /\ stateP[1] \in consumed
        out == IF used
               THEN [resp |-> CallbackReply(400, "State already used"), calls |-> <<>>]
               ELSE CallbackOutcome(codeP, stateP, net, now)
        accepted == out.resp.status = 302
    IN /\ accepted => Cardinality(consumed) < MaxConsumed
       /\ req' = [BlankReq EXCEPT !.route = "callback", !.code = codeP,
                    !.state = stateP, !.t = now, !.seenBefore = used]
       /\ resp' = out.resp
       /\ calls' = out.calls
       /\ consumed' = IF accepted THEN consumed \cup {stateP[1]} ELSE consumed
       /\ UNCHANGED <<now, presented, store, env, snapshot, data, seen, flow>>

\* A callback that remembers the redirect URIs the authorize route was
\* given and refuses a state that names another.
ProviderCallbackIssuedOnly ==
  \E codeP \in CodeInputs, stateP \in StateInputs, net \in NetInputs :
    LET cr == IF stateP # None /\ ParseState(stateP[1]).ok
              THEN JsonGet(ParseState(stateP[1]).val, "clientRedirect")
              ELSE None
        unknown == codeP # None /\ cr # None /\ cr[1] \notin presented
        out == IF unknown
               THEN [resp |-> CallbackReply(400, "Unknown state"), calls |-> <<>>]
               ELSE CallbackOutcome(codeP, stateP, net, now)
        accepted == out.resp.status = 302
    IN /\ accepted /\ stateP[1] \notin consumed => Cardinality(consumed) < MaxConsumed
       /\ req' = [BlankReq EXCEPT !.route = "callback", !.code = codeP,
                    !.state = stateP, !.t = now,
                    !.seenBefore = (stateP # None /\ stateP[1] \in consumed)]
       /\ resp' = out.resp
       /\ calls' = out.calls
       /\ consumed' = IF accepted THEN consumed \cup {stateP[1]} ELSE consumed
       /\ UNCHANGED <<now, presented, store, env, snapshot, data, seen, flow>>

ProviderCallback ==
  \E codeP \in CodeInputs, stateP \in StateInputs, net \in NetInputs :
    LET out == CallbackOutcome(codeP, stateP, net, now)
        accepted == out.resp.status = 302
    IN /\ accepted /\ stateP[1] \notin consumed => Cardinality(consumed) < MaxConsumed
       /\ req' = [BlankReq EXCEPT !.route = "callback", !.code = codeP,
                    !.state = stateP, !.t = now,
                    !.seenBefore = (stateP # None /\ stateP[1] \in consumed)]
       /\ resp' = out.resp
       /\ calls' = out.calls
       /\ consumed' = IF accepted THEN consumed \cup {stateP[1]} ELSE consumed
       /\ UNCHANGED <<now, presented, store, env, snapshot, data, seen, flow>>

----------------------------------------------------------------------------
(* POST /oauth/token *)

Scope == "read write follow push"

\* A token route that also demands client_id, as the read-only worker does.
TokenResponseNeedsClient(body, t) ==
  IF ~body.valid
  THEN Reply("token", 0, "SyntaxError")
  ELSE IF body.grant_type # Some("authorization_code")
          \/ body.code = None \/ body.code[1] = <<>> \/ body.client_id = None
  THEN Reply("token", 400, "invalid_request")
  ELSE [Reply("token", 200, "") EXCEPT
          !.access_token = body.code,
          !.token_type = "Bearer",
          !.scope = "read write follow push",
          !.created_at = t \div 1000]

\* A token route that does not look at grant_type.
TokenResponseAnyGrant(body, t) ==
  IF ~body.valid
  THEN Reply("token", 0, "SyntaxError")
  ELSE IF body.code = None \/ body.code[1] = <<>>
  THEN Reply("token", 400, "invalid_request")
  ELSE [Reply("token", 200, "") EXCEPT
          !.access_token = body.code,
          !.token_type = "Bearer",
          !.scope = "read write follow push",
          !.created_at = t \div 1000]

\* The response of the token route to a parsed (or unparseable) JSON body.
TokenResponse(body, t) ==
  IF ~body.valid
  THEN Reply("token", 0, "SyntaxError")
  ELSE IF body.grant_type # Some("authorization_code")
          \/ body.code = None \/ body.code[1] = <<>>
  THEN Reply("token", 400, "invalid_request")
  ELSE [Reply("token", 200, "") EXCEPT
          !.access_token = body.code,
          !.token_type = "Bearer",
          !.scope = Scope,
          !.created_at = t \div 1000]

TokenBodies ==
  {[NoTokenBody EXCEPT !.valid = FALSE]}
  \cup [valid : {TRUE},
        grant_type : {None, Some("authorization_code"), Some("client_credentials")},
        code : {None, Some(<<>>), Some(TokOwner), Some(TokOwnerPlus), Some(TokBad)},
        client_id : {None, Some("octodon_public_readonly")}]

TokenExchange ==
  \E body \in TokenBodies :
    /\ req' = [BlankReq EXCEPT !.route = "token", !.tbody = body, !.t = now]
    /\ resp' = TokenResponse(body, now)
    /\ calls' = <<>>
    /\ UNCHANGED <<now, presented, consumed, store, env, snapshot, data, seen, flow>>

----------------------------------------------------------------------------
(* POST /api/v1/statuses *)

DayMs == 86400000

BearerPrefix == <<"B", "e", "a", "r", "e", "r", " ">>

Bearer(token) == BearerPrefix \o token

WriteReply(status, text) == Reply("write", status, text)

\* posts/<YYYY-MM-DD>-<Date.now()>.md
PostPath(t) == [day |-> Some(t \div DayMs), ms |-> t]

\* The markdown document: frontmatter (date, visibility, sensitive) and body.
PostFile(t, content, visibility, sensitive) ==
  [path |-> PostPath(t), date |-> Some(t), visibility |-> visibility,
   sensitive |-> sensitive, content |-> content]

\* createOrUpdateFileContents without a sha: the provider refuses to
\* overwrite an existing path.
PathTaken(files, path) == \E i \in 1..Len(files) : files[i].path = path

\* A write that tries the commit a second time when the first one fails.
WriteAsOwnerRetry(token, body, net, t, d, files, c1) ==
  IF ~body.valid
  THEN [resp |-> WriteReply(500, "error"), calls |-> <<c1>>, file |-> None]
  ELSE
    LET content == IF body.status = None THEN <<>> ELSE body.status[1]
        visibility == OrElse(body.visibility, "public")
        sensitive == IF body.sensitive = None THEN FALSE ELSE body.sensitive[1]
        file == PostFile(t, content, visibility, sensitive)
    IN IF Includes(content, WideChar)
       THEN [resp |-> WriteReply(500, "error"), calls |-> <<c1>>, file |-> None]
       ELSE IF net = "commit-throws" \/ PathTaken(files, file.path)
       THEN [resp |-> WriteReply(500, "error"),
             calls |-> <<c1, CommitCall(token, file, FALSE),
                         CommitCall(token, file, FALSE)>>,
             file |-> None]
       ELSE [resp |-> [WriteReply(201, "") EXCEPT
                         !.entity = Some([id |-> t + d, created_at |-> t,
                                          content |-> content,
                                          visibility |-> visibility,
                                          sensitive |-> sensitive])],
             calls |-> <<c1, CommitCall(token, file, TRUE)>>,
             file |-> Some(file)]

\* A write whose status id is the clock read before the commit.
WriteAsOwnerIdAtRender(token, body, net, t, d, files, c1) ==
  IF ~body.valid
  THEN [resp |-> WriteReply(500, "error"), calls |-> <<c1>>, file |-> None]
  ELSE
    LET content == IF body.status = None THEN <<>> ELSE body.status[1]
        visibility == OrElse(body.visibility, "public")
        sensitive == IF body.sensitive = None THEN FALSE ELSE body.sensitive[1]
        file == PostFile(t, content, visibility, sensitive)
    IN IF Includes(content, WideChar)
       THEN [resp |-> WriteReply(500, "error"), calls |-> <<c1>>, file |-> None]
       ELSE IF net = "commit-throws" \/ PathTaken(files, file.path)
       THEN [resp |-> WriteReply(500, "error"),
             calls |-> <<c1, CommitCall(token, file, FALSE)>>, file |-> None]
       ELSE [resp |-> [WriteReply(201, "") EXCEPT
                         !.entity = Some([id |-> t, created_at |-> t,
                                          content |-> content,
                                          visibility |-> visibility,
                                          sensitive |-> sensitive])],
             calls |-> <<c1, CommitCall(token, file, TRUE)>>,
             file |-> Some(file)]

\* What the handler does for the owner: read the body, render the document,
\* commit it, and answer with a status synthesized from the input.
\* t is the clock when the document is rendered, d the time the commit takes.
WriteAsOwner(token, body, net, t, d, files, c1) ==
  IF ~body.valid
  THEN [resp |-> WriteReply(500, "error"), calls |-> <<c1>>, file |-> None]
  ELSE
    LET content == IF body.status = None THEN <<>> ELSE body.status[1]
        visibility == OrElse(body.visibility, "public")
        sensitive == IF body.sensitive = None THEN FALSE ELSE body.sensitive[1]
        file == PostFile(t, content, visibility, sensitive)
    IN IF Includes(content, WideChar)
       THEN [resp |-> WriteReply(500, "error"), calls |-> <<c1>>, file |-> None]
       ELSE IF net = "commit-throws" \/ PathTaken(files, file.path)
       THEN [resp |-> WriteReply(500, "error"),
             calls |-> <<c1, CommitCall(token, file, FALSE)>>, file |-> None]
       ELSE [resp |-> [WriteReply(201, "") EXCEPT
                         !.entity = Some([id |-> t + d, created_at |-> t,
                                          content |-> content,
                                          visibility |-> visibility,
                                          sensitive |-> sensitive])],
             calls |-> <<c1, CommitCall(token, file, TRUE)>>,
             file |-> Some(file)]

\* The write handler without its owner check.
WriteOutcomeUngated(auth, body, net, t, d, files) ==
  IF auth = None \/ ~StartsWith(auth[1], BearerPrefix)
  THEN [resp |-> WriteReply(401, "Unauthorized"), calls |-> <<>>, file |-> None]
  ELSE
    LET token == SubSeq(auth[1], Len(BearerPrefix) + 1, Len(auth[1]))
        login == IF net = "user-fetch-throws" THEN None ELSE GithubLogin(token)
        c1 == Call("getAuthenticated", "", Some(token),
                   IF login = None THEN "" ELSE login[1], login # None)
    IN IF login = None
       THEN [resp |-> WriteReply(500, "error"), calls |-> <<c1>>, file |-> None]
       ELSE WriteAsOwner(token, body, net, t, d, files, c1)

\* A write handler that takes whatever follows the first seven characters
\* of any Authorization header as the token.
WriteOutcomeAnyScheme(auth, body, net, t, d, files) ==
  IF auth = None
  THEN [resp |-> WriteReply(401, "Unauthorized"), calls |-> <<>>, file |-> None]
  ELSE
    LET token == SubSeq(auth[1], Len(BearerPrefix) + 1, Len(auth[1]))
        login == IF net = "user-fetch-throws" THEN None ELSE GithubLogin(token)
        c1 == Call("getAuthenticated", "", Some(token),
                   IF login = None THEN "" ELSE login[1], login # None)
    IN IF login = None
       THEN [resp |-> WriteReply(500, "error"), calls |-> <<c1>>, file |-> None]
       ELSE IF NotOwner(login[1])
       THEN [resp |-> WriteReply(403, "Forbidden: Not the instance owner"),
             calls |-> <<c1>>, file |-> None]
       ELSE WriteAsOwner(token, body, net, t, d, files, c1)

WriteOutcome(auth, body, net, t, d, files) ==
  IF auth = None \/ ~StartsWith(auth[1], BearerPrefix)
  THEN [resp |-> WriteReply(401, "Unauthorized"), calls |-> <<>>, file |-> None]
  ELSE
    LET token == SubSeq(auth[1], Len(BearerPrefix) + 1, Len(auth[1]))
        login == IF net = "user-fetch-throws" THEN None ELSE GithubLogin(token)
        c1 == Call("getAuthenticated", "", Some(token),
                   IF login = None THEN "" ELSE login[1], login # None)
    IN IF login = None
       THEN [resp |-> WriteReply(500, "error"), calls |-> <<c1>>, file |-> None]
       ELSE IF NotOwner(login[1])
       THEN [resp |-> WriteReply(403, "Forbidden: Not the instance owner"),
             calls |-> <<c1>>, file |-> None]
       ELSE WriteAsOwner(token, body, net, t, d, files, c1)

AuthInputs ==
  {None, Some(<<"B", "a", "s", "i", "c", " ", "x">>), Some(Bearer(TokOwner)),
   Some(Bearer(TokCase)), Some(Bearer(TokOther)), Some(Bearer(TokBad)),
   Some(<<"b", "e", "a", "r", "e", "r", " ">> \o TokOwner),
   Some(<<"B", "e", "a", "r", "e", "r">>)}

WriteBodies ==
  {[NoWriteBody EXCEPT !.valid = FALSE],
   NoWriteBody,
   [NoWriteBody EXCEPT !.status = Some(<<"h", "i">>),
                       !.visibility = Some("unlisted"),
                       !.sensitive = Some(TRUE)],
   [NoWriteBody EXCEPT !.status = Some(<<"h", WideChar>>)],
   [NoWriteBody EXCEPT !.status = Some(<<>>), !.visibility = Some(""),
                       !.sensitive = Some(FALSE)]}

WriteNetInputs == {"ok", "user-fetch-throws", "commit-throws"}

CommitLatency == {0, 1}

\* A write that also puts the new post at the head of the published data.
AuthorizedWriteThrough ==
  \E auth \in AuthInputs, body \in WriteBodies, net \in WriteNetInputs,
     d \in CommitLatency :
    LET out == WriteOutcome(auth, body, net, now, d, store)
        committed == out.file # None
    IN /\ committed => Len(store) < MaxCommits
       /\ now + d <= StartNow + MaxElapsed
       /\ req' = [BlankReq EXCEPT !.route = "write", !.auth = auth,
                    !.wbody = body, !.t = now]
       /\ resp' = out.resp
       /\ calls' = out.calls
       /\ store' = IF committed THEN Append(store, out.file[1]) ELSE store
       /\ now' = IF committed THEN now + d ELSE now
       /\ snapshot' = IF committed
                      THEN [snapshot EXCEPT !.statuses = <<Post(Len(@) + 1)>> \o @]
                      ELSE snapshot
       /\ UNCHANGED <<presented, consumed, env, data, seen, flow>>

AuthorizedWrite ==
  \E auth \in AuthInputs, body \in WriteBodies, net \in WriteNetInputs,
     d \in CommitLatency :
    LET out == WriteOutcome(auth, body, net, now, d, store)
        committed == out.file # None
    IN /\ committed => Len(store) < MaxCommits
       /\ now + d <= StartNow + MaxElapsed
       /\ req' = [BlankReq EXCEPT !.route = "write", !.auth = auth,
                    !.wbody = body, !.t = now]
       /\ resp' = out.resp
       /\ calls' = out.calls
       /\ store' = IF committed THEN Append(store, out.file[1]) ELSE store
       /\ now' = IF committed THEN now + d ELSE now
       /\ UNCHANGED <<presented, consumed, env, snapshot, data, seen, flow>>

----------------------------------------------------------------------------
(* Reading the published data (bridge worker) *)

Digit(c) ==
  CASE c = "0" -> 0 [] c = "1" -> 1 [] c = "2" -> 2 [] c = "3" -> 3
    [] c = "4" -> 4 [] c = "5" -> 5 [] c = "6" -> 6 [] c = "7" -> 7
    [] c = "8" -> 8 [] c = "9" -> 9 [] OTHER -> -1

RECURSIVE ParseDigits(_, _, _)
ParseDigits(s, i, acc) ==
  IF i > Len(s) \/ Digit(s[i]) < 0 THEN acc
  ELSE ParseDigits(s, i + 1, acc * 10 + Digit(s[i]))

NaN == [nan |-> TRUE, val |-> 0]

Num(n) == [nan |-> FALSE, val |-> n]

\* parseInt(s): an optional sign and the leading decimal digits; NaN when
\* there is no digit.  Whatever follows the digits is ignored.
ParseInt(s) ==
  LET signed == Len(s) > 0 /\ s[1] \in {"-", "+"}
      first == IF signed THEN 2 ELSE 1
  IN IF first > Len(s) \/ Digit(s[first]) < 0 THEN NaN
     ELSE Num((IF signed /\ s[1] = "-" THEN -1 ELSE 1) * ParseDigits(s, first, 0))

MaxLimit == 40

DefaultLimit == <<"2", "0">>

\* Math.min(parseInt(param || '20'), 40); Math.min with NaN is NaN.
Limit(param) ==
  LET n == ParseInt(IF param = None \/ param[1] = <<>> THEN DefaultLimit ELSE param[1])
  IN IF n.nan THEN NaN ELSE Num(IF n.val < MaxLimit THEN n.val ELSE MaxLimit)

\* Array.prototype.slice(start, end) with integer arguments: a negative
\* index counts from the end, and both are clamped to the array.
Slice(list, start, end) ==
  LET len == Len(list)
      rel(k) == IF k < 0 THEN (IF len + k < 0 THEN 0 ELSE len + k)
                ELSE (IF k > len THEN len ELSE k)
  IN IF rel(end) <= rel(start) THEN <<>>
     ELSE SubSeq(list, rel(start) + 1, rel(end))

\* slice(0, limit): a NaN end is converted to 0.
TakeLimit(list, limit) == Slice(list, 0, IF limit.nan THEN 0 ELSE limit.val)

\* Array.prototype.findIndex(s => s.id === id), counted from 0; -1 when absent.
FindIndex(list, id) ==
  LET hits == {i \in 1..Len(list) : list[i].id = id}
  IN IF hits = {} THEN -1
     ELSE (CHOOSE i \in hits : \A j \in hits : i <= j) - 1

\* The data routes load posts.json first and answer 500 without it.
\* A load that takes whatever object.json() yields.
LoadFailureUnparsed(route, snap) ==
  IF ~snap.found THEN Some(Reply(route, 500, "Data not found"))
  ELSE None

LoadFailure(route, snap) ==
  IF ~snap.found THEN Some(Reply(route, 500, "Data not found"))
  ELSE IF ~snap.valid THEN Some(Reply(route, 500, "Failed to load data"))
  ELSE None

\* GET /api/v1/timelines/public
TimelineResponse(snap, limitParam) ==
  IF LoadFailure("timeline", snap) # None THEN LoadFailure("timeline", snap)[1]
  ELSE [Reply("timeline", 200, "") EXCEPT
          !.page = TakeLimit(snap.statuses, Limit(limitParam))]

\* A status route without the check of what find returned.
StatusResponseUnchecked(snap, id) ==
  IF LoadFailure("status", snap) # None THEN LoadFailure("status", snap)[1]
  ELSE LET i == FindIndex(snap.statuses, id)
       IN [Reply("status", 200, "") EXCEPT
             !.entity = IF i = -1 THEN None ELSE Some(snap.statuses[i + 1])]

\* GET /api/v1/statuses/:id
StatusResponse(snap, id) ==
  IF LoadFailure("status", snap) # None THEN LoadFailure("status", snap)[1]
  ELSE LET i == FindIndex(snap.statuses, id)
       IN IF i = -1 THEN Reply("status", 404, "Record not found")
          ELSE [Reply("status", 200, "") EXCEPT !.entity = Some(snap.statuses[i + 1])]

LimitInputs ==
  {None, Some(<<"1">>), Some(<<"2">>), Some(<<"0">>), Some(<<"-", "1">>),
   Some(<<"a", "b", "c">>), Some(<<"4", "1">>)}

IdInputs == {IdNames[k] : k \in 1..MaxPosts}

PublicTimeline ==
  \E l \in LimitInputs :
    /\ req' = [BlankReq EXCEPT !.route = "timeline", !.limit = l, !.t = now]
    /\ resp' = TimelineResponse(snapshot, l)
    /\ calls' = <<LoadCall(snapshot)>>
    /\ UNCHANGED <<now, presented, consumed, store, env, snapshot, data, seen, flow>>

GetStatus ==
  \E id \in IdInputs :
    /\ req' = [BlankReq EXCEPT !.route = "status", !.id = id, !.t = now]
    /\ resp' = StatusResponse(snapshot, id)
    /\ calls' = <<LoadCall(snapshot)>>
    /\ UNCHANGED <<now, presented, consumed, store, env, snapshot, data, seen, flow>>

----------------------------------------------------------------------------
(* The build (build.ts in src/unnamed/part_001): posts/*.md to posts.json. *)
(* The posts directory is the content store; besides the files the bridge  *)
(* commits it holds files written by hand, whose name may carry no date    *)
(* and whose frontmatter may carry none.                                    *)

\* A file written by hand: posts/<day>-<name>.md or posts/<name>.md.
HandFile(day, name, date) ==
  [path |-> [day |-> day, ms |-> name], date |-> date, visibility |-> "public",
   sensitive |-> FALSE, content |-> <<>>]

\* postData.date || (date of the file name at 12:00 UTC) || the build's clock
DateOf(file, t) ==
  IF file.date # None THEN file.date[1]
  ELSE IF file.path.day # None THEN file.path.day[1] * DayMs + DayMs \div 2
  ELSE t

\* id: date.getTime().toString(); created_at: date.toISOString()
BuiltStatus(file, t) == [id |-> ToString(DateOf(file, t)), created_at |-> DateOf(file, t)]

\* Array.prototype.sort with (a, b) => b.created_at - a.created_at: newest
\* first, elements that compare equal keep the order they had.
RECURSIVE SortNewestFirst(_)
SortNewestFirst(list) ==
  IF list = <<>> THEN <<>>
  ELSE LET x == list[Len(list)]
           sorted == SortNewestFirst(SubSeq(list, 1, Len(list) - 1))
           before == SelectSeq(sorted, LAMBDA y : y.created_at >= x.created_at)
           after == SelectSeq(sorted, LAMBDA y : y.created_at < x.created_at)
       IN before \o <<x>> \o after

\* A build that writes the statuses in the order of the directory listing.
BuildUnsorted(files, t) ==
  Snapshot(TRUE, TRUE, [i \in 1..Len(files) |-> BuiltStatus(files[i], t)])

\* The posts.json the build writes from the files of the posts directory,
\* taken in the order readdirSync lists them, at build time t.
Build(files, t) ==
  Snapshot(TRUE, TRUE,
           SortNewestFirst([i \in 1..Len(files) |-> BuiltStatus(files[i], t)]))

FileDays == {None, Some(0), Some(1)}

FileDates == {None, Some(StartNow), Some(StartNow + 1), Some(DayMs \div 2)}

\* The directory listings of up to MaxFiles hand-written files, in any order.
Directories ==
  UNION {[1..n -> FileDays \X FileDates] : n \in 0..MaxFiles}

DirectoryFiles(d) == [i \in 1..Len(d) |-> HandFile(d[i][1], i, d[i][2])]

\* npm run build, then wrangler r2 object put: posts.json is replaced by
\* what the build makes of the posts directory.
BuildAndPublish ==
  /\ snapshot' = Build(store, now)
  /\ UNCHANGED <<now, presented, consumed, store, env, data, seen, flow, req, resp, calls>>

----------------------------------------------------------------------------
(* The OAuth flow as one client goes through it: authorize, the owner's    *)
(* login at the provider, the callback, the token exchange with the code   *)
(* of the redirect, and a write with the token received.  Each step is the *)
(* route's handler applied to what the previous response gave the client.  *)

Escaped == {"+", "?", "&", "=", "/", ":", "%", WideChar}

\* The decoding URLSearchParams applies to a name or a value: "+" is a
\* space, %XX sequences are the characters they escape.
RECURSIVE FormDecode(_)
FormDecode(s) ==
  IF s = <<>> THEN <<>>
  ELSE IF s[1] = "+" THEN <<" ">> \o FormDecode(Tail(s))
  ELSE IF s[1] = "%" /\ \E c \in Escaped : StartsWith(s, EncodeChar(c))
  THEN LET c == CHOOSE e \in Escaped : StartsWith(s, EncodeChar(e))
       IN <<c>> \o FormDecode(SubSeq(s, Len(EncodeChar(c)) + 1, Len(s)))
  ELSE <<s[1]>> \o FormDecode(Tail(s))

\* The position of the first c in s, 0 when there is none.
IndexOf(s, c) ==
  IF Includes(s, c)
  THEN CHOOSE k \in 1..Len(s) : s[k] = c /\ \A j \in 1..(k - 1) : s[j] # c
  ELSE 0

RECURSIVE Split(_, _)
Split(s, sep) ==
  IF IndexOf(s, sep) = 0 THEN <<s>>
  ELSE <<SubSeq(s, 1, IndexOf(s, sep) - 1)>>
         \o Split(SubSeq(s, IndexOf(s, sep) + 1, Len(s)), sep)

\* new URL(url).searchParams.get(name): the value of the first pair of the
\* query with that name.
SearchParamsGet(url, name) ==
  LET q == IF IndexOf(url, "?") = 0 THEN <<>>
           ELSE SubSeq(url, IndexOf(url, "?") + 1, Len(url))
      pairs == IF q = <<>> THEN <<>> ELSE Split(q, "&")
      Name(pr) == FormDecode(IF IndexOf(pr, "=") = 0 THEN pr
                             ELSE SubSeq(pr, 1, IndexOf(pr, "=") - 1))
      Value(pr) == FormDecode(IF IndexOf(pr, "=") = 0 THEN <<>>
                              ELSE SubSeq(pr, IndexOf(pr, "=") + 1, Len(pr)))
      hits == {i \in 1..Len(pairs) : Name(pairs[i]) = name}
  IN IF hits = {} THEN None
     ELSE Some(Value(pairs[CHOOSE i \in hits : \A j \in hits : i <= j]))

FlowRedirects == {Some(UriPlain), Some(UriQuery)}

FlowCodes == {Some("code-owner"), Some("code-owner-plus"), Some("code-case"), Some("code-bad")}

FlowAuthorize ==
  /\ flow.stage = "start"
  /\ \E p \in FlowRedirects :
       LET out == AuthorizeResponse(p, now)
       IN /\ req' = [BlankReq EXCEPT !.route = "authorize", !.redirect_uri = p, !.t = now]
          /\ resp' = out
          /\ presented' = presented \cup {p[1]}
          /\ flow' = IF out.status = 302
                     THEN [flow EXCEPT !.stage = "authorized", !.state = out.state]
                     ELSE [flow EXCEPT !.stage = "failed"]
  /\ calls' = <<>>
  /\ UNCHANGED <<now, consumed, store, env, snapshot, data, seen>>

\* The provider sends the browser to the callback with the code of the
\* login and the state of the authorize step.
FlowCallback ==
  /\ flow.stage = "authorized"
  /\ \E codeP \in FlowCodes, net \in NetInputs :
       LET out == CallbackOutcome(codeP, flow.state, net, now)
       IN /\ req' = [BlankReq EXCEPT !.route = "callback", !.code = codeP,
                       !.state = flow.state, !.t = now]
          /\ resp' = out.resp
          /\ calls' = out.calls
          /\ flow' = IF out.resp.status = 302
                     THEN [flow EXCEPT !.stage = "redirected",
                                       !.location = out.resp.location,
                                       !.issued = out.calls[1].token]
                     ELSE [flow EXCEPT !.stage = "failed"]
  /\ UNCHANGED <<now, presented, consumed, store, env, snapshot, data, seen>>

\* The client posts the code of the redirect to the token route.
FlowToken ==
  /\ flow.stage = "redirected"
  /\ LET body == [valid |-> TRUE, grant_type |-> Some("authorization_code"),
                  code |-> SearchParamsGet(flow.location[1], <<"c", "o", "d", "e">>),
                  client_id |-> Some(PublicCredential)]
         out == TokenResponse(body, now)
     IN /\ req' = [BlankReq EXCEPT !.route = "token", !.tbody = body, !.t = now]
        /\ resp' = out
        /\ flow' = IF out.status = 200
                   THEN [flow EXCEPT !.stage = "tokened", !.token = out.access_token]
                   ELSE [flow EXCEPT !.stage = "failed"]
  /\ calls' = <<>>
  /\ UNCHANGED <<now, presented, consumed, store, env, snapshot, data, seen>>

\* The client posts a status with the token as bearer.
FlowWrite ==
  /\ flow.stage = "tokened"
  /\ \E body \in WriteBodies, net \in WriteNetInputs, d \in CommitLatency :
       LET auth == Some(Bearer(flow.token[1]))
           out == WriteOutcome(auth, body, net, now, d, store)
           committed == out.file # None
       IN /\ committed => Len(store) < MaxCommits
          /\ now + d <= StartNow + MaxElapsed
          /\ req' = [BlankReq EXCEPT !.route = "write", !.auth = auth,
                       !.wbody = body, !.t = now]
          /\ resp' = out.resp
          /\ calls' = out.calls
          /\ store' = IF committed THEN Append(store, out.file[1]) ELSE store
          /\ now' = IF committed THEN now + d ELSE now
  /\ flow' = [flow EXCEPT !.stage = "written"]
  /\ UNCHANGED <<presented, consumed, env, snapshot, data, seen>>

----------------------------------------------------------------------------
(* signState and verifyState (src/unnamed/part_003)                        *)

\* The hex text of a signature; .map(b => b.toString(16).padStart(2, '0'))
\* writes lower-case digits.
ToHex(bytes) == <<"hex", "lower", bytes>>

\* sig.match(/.{1,2}/g).map(byte => parseInt(byte, 16)): hex digits of
\* either case give the same bytes, any other text gives no signature.
FromHex(text) == IF text[1] = "hex" THEN text[3] ELSE <<>>

\* { ...state, sig: signatureHex }: a member named sig keeps its place and
\* takes the new value, otherwise sig is added last.
WithSig(obj, sig) ==
  IF JsonGet(obj, "sig") = None THEN obj \o << <<"sig", sig>> >>
  ELSE [i \in 1..Len(obj) |-> IF obj[i][1] = "sig" THEN <<"sig", sig>> ELSE obj[i]]

signState(state, secret) ==
  Btoa(WithSig(state, ToHex(HmacSha256(secret, state))))

\* A returned value is status 200 with the value as entity; a thrown error
\* is status 0 with its message.
verifyState(encodedState, secret, t) ==
  LET parsed == ParseState(encodedState)
      sig == JsonGet(parsed.val, "sig")
      payload == WithoutSig(parsed.val)
  IN IF ~parsed.ok THEN Reply("verify", 0, "SyntaxError")
     ELSE IF sig = None THEN Reply("verify", 0, "TypeError")
     ELSE IF FromHex(sig[1]) # HmacSha256(secret, payload)
     THEN Reply("verify", 0, "Invalid state signature")
     ELSE IF IsExpired(payload, t) THEN Reply("verify", 0, "State expired")
     ELSE [Reply("verify", 200, "") EXCEPT !.entity = Some(payload)]

\* The state objects given to signState at time t.
SignObjects(t) ==
  {BridgeState(UriPlain, t), BridgeState(UriQuery, t), BridgeState(UriWide, t),
   << <<"clientRedirect", UriPlain>> >>, <<>>,
   BridgeState(UriPlain, t) \o << <<"sig", ToHex(<<>>)>> >>}

SetMember(obj, k, v) ==
  [i \in 1..Len(obj) |-> IF obj[i][1] = k THEN <<k, v>> ELSE obj[i]]

\* What a holder of the encoded state can change in it.
Tamperings == {"redirect", "ts", "drop-ts", "add", "sig", "sig-case", "no-sig"}

Tampered(obj, how) ==
  IF how = "redirect" THEN SetMember(obj, "clientRedirect", UriRelative)
  ELSE IF how = "ts" THEN SetMember(obj, "ts", StartNow + MaxElapsed)
  ELSE IF how = "drop-ts" THEN SelectSeq(obj, LAMBDA m : m[1] # "ts")
  ELSE IF how = "add" THEN << <<"admin", UriPlain>> >> \o obj
  ELSE IF how = "sig" THEN SetMember(obj, "sig", ToHex(HmacSha256("guess", WithoutSig(obj))))
  ELSE IF how = "sig-case"
  THEN SetMember(obj, "sig", <<"hex", "upper", FromHex(JsonGet(obj, "sig")[1])>>)
  ELSE WithoutSig(obj)

SecretInputs == {ServerSecret, "guess"}

SignState ==
  /\ req.route = "none"
  /\ \E o \in SignObjects(now) :
       LET signed == signState(o, ServerSecret)
       IN /\ req' = [BlankReq EXCEPT
                       !.route = "sign", !.obj = o, !.t = now,
                       !.state = IF signed.ok THEN Some(signed.val) ELSE None]
          /\ resp' = IF signed.ok THEN BlankResp
                     ELSE Reply("sign", 0, "InvalidCharacterError")
  /\ calls' = <<>>
  /\ UNCHANGED <<now, presented, consumed, store, env, snapshot, data, seen, flow>>

Tamper ==
  /\ req.route = "sign" /\ req.state # None /\ resp.route = "none"
  /\ \E how \in Tamperings :
       /\ Tampered(req.state[1].text, how) # req.state[1].text
       /\ req' = [req EXCEPT
                    !.route = "tampered",
                    !.state = Some([b64 |-> TRUE,
                                    text |-> Tampered(req.state[1].text, how)])]
  /\ UNCHANGED <<now, presented, consumed, store, env, snapshot, data, seen, resp, calls, flow>>

VerifyState ==
  /\ req.route \in {"sign", "tampered"} /\ req.state # None /\ resp.route = "none"
  /\ \E k \in SecretInputs :
       /\ req' = [req EXCEPT !.secret = k, !.t = now]
       /\ resp' = verifyState(req.state[1], k, now)
  /\ UNCHANGED <<now, presented, consumed, store, env, snapshot, data, seen, calls, flow>>

----------------------------------------------------------------------------
(* The data routes of the bridge worker, as the fetch handler orders them. *)
(* A path is the sequence of its segments after /api/v1/.  The handler     *)
(* awaits the load of posts.json and then computes the response; the two   *)
(* are separate steps, between which a new posts.json may be published.    *)

Last(path) == path[Len(path)]

DEFAULT_PREFERENCES == [visibility |-> "public", sensitive |-> FALSE, language |-> "en"]

\* GET /api/v1/accounts/:id, the id being the last segment of the path.
AccountResponse(snap, id) ==
  IF id = "1" \/ id = snap.account.id
  THEN [Reply("account", 200, "") EXCEPT !.entity = Some(snap.account)]
  ELSE Reply("account", 404, "Record not found")

\* An account route that takes whatever follows accounts/ as an id.
AccountsRouteIdFirst(r, snap) ==
  AccountResponse(snap, Last(r.path))

\* The routes under /api/v1/accounts/, the fixed paths before the id.
AccountsRoute(r, snap) ==
  IF r.path = <<"accounts", "verify_credentials">>
  THEN [Reply("verify_credentials", 200, "") EXCEPT !.entity = Some(snap.account)]
  ELSE IF r.path = <<"accounts", "lookup">>
  THEN IF r.acct = Some(snap.account.username) \/ r.acct = Some(snap.account.acct)
       THEN [Reply("lookup", 200, "") EXCEPT !.entity = Some(snap.account)]
       ELSE Reply("lookup", 404, "Record not found")
  ELSE IF Len(r.path) = 3 /\ r.path[2] # "" /\ r.path[3] = "statuses"
  THEN [Reply("account-timeline", 200, "") EXCEPT
          !.page = IF r.pinned = Some("true") THEN <<>>
                   ELSE TakeLimit(snap.statuses, Limit(r.limit))]
  ELSE IF Len(r.path) = 3 /\ r.path[2] # "" /\ r.path[3] = "relationships"
  THEN [Reply("relationships", 200, "") EXCEPT
          !.page = <<[id |-> snap.account.id, created_at |-> 0]>>]
  ELSE AccountResponse(snap, Last(r.path))

\* Everything the handler does after posts.json is loaded.
DataRoute(r, snap) ==
  IF r.path = <<"timelines", "public">>
  THEN TimelineResponse(snap, r.limit)
  ELSE IF Len(r.path) >= 2 /\ r.path[1] = "statuses"
  THEN StatusResponse(snap, Last(r.path))
  ELSE IF r.path = <<"instance">>
  THEN [Reply("instance", 200, "") EXCEPT
          !.entity = Some([status_count |-> Len(snap.statuses),
                           contact_account |-> snap.account])]
  ELSE IF Len(r.path) >= 2 /\ r.path[1] = "accounts"
  THEN AccountsRoute(r, snap)
  ELSE IF r.path = <<"preferences">>
  THEN [Reply("preferences", 200, "") EXCEPT !.entity = Some(DEFAULT_PREFERENCES)]
  ELSE IF r.path = <<"timelines", "home">>
  THEN [Reply("home", 200, "") EXCEPT
          !.page = TakeLimit(snap.statuses, Limit(r.limit))]
  ELSE Reply("not-found", 404, "Not found")

\* The response computed from one load of posts.json.
DataResponse(r, loaded) ==
  IF LoadFailure("data", loaded) # None THEN LoadFailure("data", loaded)[1]
  ELSE DataRoute(r, loaded)

DataReq(path) == [BlankReq EXCEPT !.route = "data", !.path = path]

DataRequests ==
  {[DataReq(p) EXCEPT !.limit = l] :
     p \in {<<"timelines", "public">>, <<"timelines", "home">>,
            <<"accounts", "7", "statuses">>},
     l \in {None, Some(<<"2">>), Some(<<"-", "1">>), Some(<<"a", "b", "c">>)}}
  \cup {[DataReq(<<"accounts", "1", "statuses">>) EXCEPT !.pinned = Some("true")]}
  \cup {DataReq(<<"statuses", id>>) : id \in IdInputs \cup {""}}
  \cup {[DataReq(<<"accounts", "lookup">>) EXCEPT !.acct = a] :
          a \in {None, Some("owner"), Some("lookup")}}
  \cup {DataReq(p) :
          p \in {<<"instance">>, <<"preferences">>, <<"nope">>,
                 <<"accounts", "verify_credentials">>,
                 <<"accounts", "1">>, <<"accounts", AccountId>>,
                 <<"accounts", "2">>, <<"accounts", "">>,
                 <<"accounts", "lookup", "1">>,
                 <<"accounts", "1", "relationships">>}}

\* The contents env.DATA may hold: published, republished with a new post,
\* never published, published truncated, published empty.
Snapshots ==
  {PublishedSnapshot, Snapshot(TRUE, TRUE, NewestFirst(1..4)),
   Snapshot(FALSE, FALSE, <<>>), Snapshot(TRUE, FALSE, <<>>),
   Snapshot(TRUE, TRUE, <<>>)}

\* No data request is in flight.
Idle == req.route # "data" \/ resp.route # "none"

Arrive ==
  /\ Idle
  /\ \E r \in DataRequests : req' = [r EXCEPT !.t = now]
  /\ resp' = BlankResp
  /\ calls' = <<>>
  /\ data' = None
  /\ seen' = {snapshot}
  /\ UNCHANGED <<now, presented, consumed, store, env, snapshot, flow>>

\* await env.DATA.get('posts.json') and object.json()
LoadData ==
  /\ ~Idle /\ data = None
  /\ data' = Some(snapshot)
  /\ calls' = Append(calls, LoadCall(snapshot))
  /\ UNCHANGED <<now, presented, consumed, store, env, snapshot, seen, req, resp, flow>>

\* The first n elements of a list, and the list without its first element.
Take2(list, n) == SubSeq(list, 1, IF n < Len(list) THEN n ELSE Len(list))

Tail2(list) == IF list = <<>> THEN <<>> ELSE Tail(list)

\* A handler that reads the bucket again while it builds the response: the
\* status count of the instance document and the first post of a page come
\* from the first load, the rest from the second.
RespondReloading ==
  /\ ~Idle /\ data # None
  /\ resp' = IF LoadFailure("data", data[1]) # None \/ LoadFailure("data", snapshot) # None
             THEN DataResponse(req, data[1])
             ELSE [DataResponse(req, snapshot) EXCEPT
                     !.page = Take2(DataResponse(req, data[1]).page, 1)
                                \o Tail2(@)]
  /\ UNCHANGED <<now, presented, consumed, store, env, snapshot, data, seen, req, calls, flow>>

Respond ==
  /\ ~Idle /\ data # None
  /\ resp' = DataResponse(req, data[1])
  /\ UNCHANGED <<now, presented, consumed, store, env, snapshot, data, seen, req, calls, flow>>

\* wrangler r2 object put octodon-data/posts.json: the build's output
\* replaces the object.
Publish ==
  /\ \E s \in Snapshots \ {snapshot} :
       /\ snapshot' = s
       /\ seen' = IF Idle THEN seen ELSE seen \cup {s}
  /\ UNCHANGED <<now, presented, consumed, store, env, data, req, resp, calls, flow>>

----------------------------------------------------------------------------
(* Cursor pagination (src/src/index.ts): the worker that serves the index  *)
(* bundled with the script.                                                *)

Reverse(list) == [i \in 1..Len(list) |-> list[Len(list) + 1 - i]]

\* if (cursor): null and the empty string are falsy.
Given(cursor) == cursor # None /\ cursor[1] # ""

\* A max_id filter that keeps the cursor's own post.
AfterMaxIdInclusive(statuses, maxId) ==
  IF Given(maxId) /\ FindIndex(statuses, maxId[1]) # -1
  THEN Slice(statuses, FindIndex(statuses, maxId[1]), Len(statuses))
  ELSE statuses

\* A max_id filter that leaves nothing when the id is not in the list.
AfterMaxIdStrict(statuses, maxId) ==
  IF ~Given(maxId) THEN statuses
  ELSE IF FindIndex(statuses, maxId[1]) = -1 THEN <<>>
  ELSE Slice(statuses, FindIndex(statuses, maxId[1]) + 1, Len(statuses))

\* A max_id filter that also leaves out the post after the cursor's.
AfterMaxIdSkipping(statuses, maxId) ==
  IF Given(maxId) /\ FindIndex(statuses, maxId[1]) # -1
  THEN Slice(statuses, FindIndex(statuses, maxId[1]) + 2, Len(statuses))
  ELSE statuses

\* max_id: the posts after the cursor's position.
AfterMaxId(statuses, maxId) ==
  IF Given(maxId) /\ FindIndex(statuses, maxId[1]) # -1
  THEN Slice(statuses, FindIndex(statuses, maxId[1]) + 1, Len(statuses))
  ELSE statuses

\* A since_id filter that keeps the cursor's own post.
AfterSinceIdInclusive(statuses, sinceId) ==
  IF Given(sinceId) /\ FindIndex(statuses, sinceId[1]) # -1
  THEN Slice(statuses, 0, FindIndex(statuses, sinceId[1]) + 1)
  ELSE statuses

\* since_id: the posts before the cursor's position.
AfterSinceId(statuses, sinceId) ==
  IF Given(sinceId) /\ FindIndex(statuses, sinceId[1]) # -1
  THEN Slice(statuses, 0, FindIndex(statuses, sinceId[1]))
  ELSE statuses

\* A min_id filter that keeps the list order.
AfterMinIdNewestFirst(statuses, minId) ==
  IF Given(minId) /\ FindIndex(statuses, minId[1]) # -1
  THEN Slice(statuses, 0, FindIndex(statuses, minId[1]))
  ELSE statuses

\* min_id: the posts before the cursor's position, nearest first.
AfterMinId(statuses, minId) ==
  IF Given(minId) /\ FindIndex(statuses, minId[1]) # -1
  THEN Reverse(Slice(statuses, 0, FindIndex(statuses, minId[1])))
  ELSE statuses

\* GET /api/v1/accounts/:id/statuses, and GET /api/v1/timelines/public with
\* the account's own id.  The three filters run one after the other, each on
\* what the one before left.
handleAccountStatuses(id, searchParams, statusIndex) ==
  IF id # AccountId
  THEN Reply("account-statuses", 404, "Account not found")
  ELSE LET limit == Limit(searchParams.limit)
           s1 == AfterMaxId(statusIndex, searchParams.max_id)
           s2 == AfterSinceId(s1, searchParams.since_id)
           s3 == AfterMinId(s2, searchParams.min_id)
       IN [Reply("account-statuses", 200, "") EXCEPT !.page = TakeLimit(s3, limit)]

\* The contents of the shared array after target.reverse(), which reverses
\* target in place: it is the shared array that is reversed when target is
\* that array itself and not a copy that slice made.
AfterReverseOf(targetIsShared, shared) ==
  IF targetIsShared THEN Reverse(shared) ELSE shared

\* A handler whose min_id step is statuses.reverse().slice(...): the array
\* reversed is `statuses`, which is statusIndex itself as long as no
\* earlier filter has replaced it by a slice.
statusIndexAfterReverseFirst(searchParams, statusIndex) ==
  LET maxFound == Given(searchParams.max_id)
                    /\ FindIndex(statusIndex, searchParams.max_id[1]) # -1
      s1 == AfterMaxId(statusIndex, searchParams.max_id)
      sinceFound == Given(searchParams.since_id)
                      /\ FindIndex(s1, searchParams.since_id[1]) # -1
      s2 == AfterSinceId(s1, searchParams.since_id)
      minFound == Given(searchParams.min_id)
                    /\ FindIndex(s2, searchParams.min_id[1]) # -1
  IN IF minFound THEN AfterReverseOf(~maxFound /\ ~sinceFound, statusIndex)
     ELSE statusIndex

\* The module-level statusIndex after the handler has run.  `statuses`
\* starts as statusIndex itself; slice returns a new array each time, and
\* the one in-place operation, reverse, is applied to the array that
\* statuses.slice(0, minIdIndex) has just returned.
statusIndexAfter(searchParams, statusIndex) ==
  LET s2 == AfterSinceId(AfterMaxId(statusIndex, searchParams.max_id),
                         searchParams.since_id)
      minFound == Given(searchParams.min_id)
                    /\ FindIndex(s2, searchParams.min_id[1]) # -1
  IN IF minFound THEN AfterReverseOf(FALSE, statusIndex)
     ELSE statusIndex

CursorInputs == {None, Some("")} \cup {Some(id) : id \in IdInputs}

\* The requests for the account's statuses, and one for an account that
\* does not exist.
StatusesRequests ==
  {[BlankReq EXCEPT !.route = "account-statuses", !.id = AccountId, !.limit = l,
                    !.max_id = mx, !.since_id = si, !.min_id = mi] :
     l \in LimitInputs, mx \in CursorInputs, si \in CursorInputs, mi \in CursorInputs}
  \cup {[BlankReq EXCEPT !.route = "account-statuses", !.id = "acct-2"]}

\* The indexes the build can bundle: any set of posts, newest first.
Indexes == {Snapshot(TRUE, TRUE, NewestFirst(S)) : S \in SUBSET (1..MaxPosts)}

\* A request has arrived and is not answered yet.
InitPaginate ==
  /\ now = StartNow
  /\ presented = {}
  /\ consumed = {}
  /\ store = <<>>
  /\ env = ConfiguredEnv
  /\ snapshot \in Indexes
  /\ data = None
  /\ seen = {}
  /\ flow = NoFlow
  /\ req \in StatusesRequests
  /\ resp = BlankResp
  /\ calls = <<>>

AccountStatuses ==
  /\ req.route = "account-statuses"
  /\ resp.route = "none"
  /\ resp' = handleAccountStatuses(req.id, req, snapshot.statuses)
  /\ snapshot' = [snapshot EXCEPT !.statuses = statusIndexAfter(req, @)]
  /\ UNCHANGED <<now, presented, consumed, store, env, data, seen, req, calls, flow>>

TraverseLimits == {None, Some(<<"1">>), Some(<<"2">>), Some(<<"4", "1">>)}

\* The client asks for the next page: max_id is the id of the last post it
\* has received, none at first; an empty page ends the reading.
Traverse ==
  /\ flow.stage = "browsing"
  /\ LET r == [BlankReq EXCEPT !.route = "account-statuses", !.id = AccountId,
                               !.limit = flow.limit, !.max_id = flow.cursor,
                               !.t = now]
         out == handleAccountStatuses(r.id, r, snapshot.statuses)
     IN /\ req' = r
        /\ resp' = out
        /\ snapshot' = [snapshot EXCEPT !.statuses = statusIndexAfter(r, @)]
        /\ flow' = IF out.page = <<>> THEN [flow EXCEPT !.stage = "done"]
                   ELSE [flow EXCEPT !.pages = @ \o out.page,
                                     !.cursor = Some(out.page[Len(out.page)].id)]
  /\ UNCHANGED <<now, presented, consumed, store, env, data, seen, calls>>

BrowseCursors == {None, Some("P2"), Some("P4")}

\* Requests for the account's statuses, one after the other.
BrowseRequests ==
  {[BlankReq EXCEPT !.route = "account-statuses", !.id = AccountId, !.limit = l,
                    !.max_id = mx, !.since_id = si, !.min_id = mi] :
     l \in {None, Some(<<"2">>)}, mx \in BrowseCursors, si \in BrowseCursors,
     mi \in BrowseCursors}

Browse ==
  /\ \E r \in BrowseRequests :
       /\ req' = [r EXCEPT !.t = now]
       /\ resp' = handleAccountStatuses(r.id, r, snapshot.statuses)
       /\ snapshot' = [snapshot EXCEPT !.statuses = statusIndexAfter(r, @)]
  /\ UNCHANGED <<now, presented, consumed, store, env, data, seen, calls, flow>>

----------------------------------------------------------------------------
(* The read-only worker (src/src/worker.ts): the same API without GitHub,   *)
(* with mock OAuth routes that approve every client.                       *)

\* The hex digest of SHA-256, as its two halves of 32 characters; an
\* injective encoding of the text stands for the digest.
Sha256Hex(text) == [lo |-> <<"#lo">> \o text, hi |-> <<"#hi">> \o text]

AuthCodeSuffix == <<":", "a", "u", "t", "h", "_", "c", "o", "d", "e">>

CodeParam == <<"c", "o", "d", "e", "=">>

\* GET /oauth/authorize of the read-only worker: approve and redirect back.
ReadOnlyAuthorizeResponse(clientId, redirectUri, responseType) ==
  IF IsMissing(clientId) \/ IsMissing(redirectUri) \/ responseType # Some("code")
  THEN Reply("readonly-authorize", 400, "Invalid OAuth request")
  ELSE LET authCode == Sha256Hex(clientId[1] \o AuthCodeSuffix).lo
           target == redirectUri[1] \o <<Separator(redirectUri[1])>>
                       \o CodeParam \o authCode
       IN IF ~IsUrl(target)
          THEN Reply("readonly-authorize", 500, "Failed to process OAuth request")
          ELSE [Reply("readonly-authorize", 302, "") EXCEPT
                  !.location = Some(UrlHref(target))]

ClientIdInputs == {None, Some(<<>>), Some(<<"x">>), Some(<<"y">>)}

ClientRedirectInputs ==
  {None, Some(UriPlain), Some(UriQuery), Some(UriRelative), Some(UriBare)}

ResponseTypeInputs == {None, Some("code"), Some("token")}

ReadOnlyAuthorize ==
  \E c \in ClientIdInputs, p \in ClientRedirectInputs, r \in ResponseTypeInputs :
    /\ req' = [BlankReq EXCEPT !.route = "readonly-authorize", !.client_id = c,
                 !.redirect_uri = p, !.response_type = r, !.t = now]
    /\ resp' = ReadOnlyAuthorizeResponse(c, p, r)
    /\ calls' = <<>>
    /\ UNCHANGED <<now, presented, consumed, store, env, snapshot, data, seen, flow>>


----------------------------------------------------------------------------
(* Specifications *)

NextAuthorize == Authorize \/ Tick

SpecAuthorize == Init /\ [][NextAuthorize]_vars

NextCallback == ProviderCallback \/ Tick

SpecCallback == Init /\ [][NextCallback]_vars

NextToken == TokenExchange \/ Tick

SpecToken == Init /\ [][NextToken]_vars

\* Write requests back to back: the clock moves only while a commit is
\* in flight, so two requests can fall into the same millisecond.
NextWrite == AuthorizedWrite

SpecWrite == Init /\ [][NextWrite]_vars

\* The browser flow: authorize, then the provider's redirect to the callback.
NextFlow == Authorize \/ ProviderCallback \/ Tick

SpecFlow == Init /\ [][NextFlow]_vars

\* Every route of the bridge worker.
Next ==
  \/ AppRegistration \/ Authorize \/ ProviderCallback \/ TokenExchange
  \/ AuthorizedWrite \/ Tick

Spec == Init /\ [][Next]_vars

\* Requests to the routes that commit nothing, in any order and repeated.
NextRequests ==
  \/ Authorize \/ ProviderCallback \/ TokenExchange
  \/ PublicTimeline \/ GetStatus

SpecRequests == Init /\ [][NextRequests]_vars

\* A client's first two steps: it registers, then sends the browser to
\* the authorize route.
NextRegister == AppRegistration \/ Authorize \/ Tick

SpecRegister == Init /\ [][NextRegister]_vars

\* The write route of a deployment where GitHub OAuth was never set up.
InitUnconfigured ==
  /\ now = StartNow
  /\ presented = {}
  /\ consumed = {}
  /\ store = <<>>
  /\ env = UnconfiguredEnv
  /\ snapshot = PublishedSnapshot
  /\ data = None
  /\ seen = {}
  /\ flow = NoFlow
  /\ req = BlankReq
  /\ resp = BlankResp
  /\ calls = <<>>

NextUnconfigured == AuthorizedWrite \/ Tick

SpecUnconfigured == InitUnconfigured /\ [][NextUnconfigured]_vars

\* Writes and reads of the published data, in any order, over data that
\* was published, was never published, or is empty.
ReadSnapshots ==
  {PublishedSnapshot, Snapshot(FALSE, FALSE, <<>>), Snapshot(TRUE, TRUE, <<>>)}

InitWriteRead ==
  /\ now = StartNow
  /\ presented = {}
  /\ consumed = {}
  /\ store = <<>>
  /\ env = ConfiguredEnv
  /\ snapshot \in ReadSnapshots
  /\ data = None
  /\ seen = {}
  /\ flow = NoFlow
  /\ req = BlankReq
  /\ resp = BlankResp
  /\ calls = <<>>

NextWriteRead == AuthorizedWrite \/ PublicTimeline \/ GetStatus

SpecWriteRead == InitWriteRead /\ [][NextWriteRead]_vars

\* The pagination of src/src/index.ts applied to one request.
NextPaginate == AccountStatuses

SpecPaginate == InitPaginate /\ [][NextPaginate]_vars

\* Builds of a posts directory written by hand.
InitBuild ==
  /\ now = StartNow
  /\ presented = {}
  /\ consumed = {}
  /\ store \in {DirectoryFiles(d) : d \in Directories}
  /\ env = ConfiguredEnv
  /\ snapshot = Snapshot(FALSE, FALSE, <<>>)
  /\ data = None
  /\ seen = {}
  /\ flow = NoFlow
  /\ req = BlankReq
  /\ resp = BlankResp
  /\ calls = <<>>

NextBuild == BuildAndPublish \/ Tick

SpecBuild == InitBuild /\ [][NextBuild]_vars

\* The flow's requests and data requests: every kind of request that calls
\* a collaborator.
NextCalls ==
  \/ FlowAuthorize \/ FlowCallback \/ FlowToken \/ FlowWrite
  \/ PublicTimeline \/ GetStatus \/ Tick

SpecCalls == InitWriteRead /\ [][NextCalls]_vars

\* One client going through the whole flow.
NextJourney == FlowAuthorize \/ FlowCallback \/ FlowToken \/ FlowWrite \/ Tick

SpecJourney == Init /\ [][NextJourney]_vars

\* A state signed, possibly altered by its holder, and verified.
NextSign == SignState \/ Tamper \/ VerifyState \/ Tick

SpecSign == Init /\ [][NextSign]_vars

\* Data requests, one in flight at a time, while posts.json is republished.
InitData ==
  /\ now = StartNow
  /\ presented = {}
  /\ consumed = {}
  /\ store = <<>>
  /\ env = ConfiguredEnv
  /\ snapshot \in Snapshots
  /\ data = None
  /\ seen = {}
  /\ flow = NoFlow
  /\ req = BlankReq
  /\ resp = BlankResp
  /\ calls = <<>>

NextData == Arrive \/ LoadData \/ Respond \/ Publish

SpecData == InitData /\ [][NextData]_vars

\* Requests for the account's statuses, any number of them, over one index.
InitBrowse ==
  /\ now = StartNow
  /\ presented = {}
  /\ consumed = {}
  /\ store = <<>>
  /\ env = ConfiguredEnv
  /\ snapshot \in Indexes
  /\ data = None
  /\ seen = {}
  /\ flow = NoFlow
  /\ req = BlankReq
  /\ resp = BlankResp
  /\ calls = <<>>

NextBrowse == Browse

SpecBrowse == InitBrowse /\ [][NextBrowse]_vars

\* One client reading the whole timeline with max_id, the handler answering
\* every request it sends.
InitTraverse ==
  /\ now = StartNow
  /\ presented = {}
  /\ consumed = {}
  /\ store = <<>>
  /\ env = ConfiguredEnv
  /\ snapshot \in Indexes
  /\ data = None
  /\ seen = {}
  /\ flow \in {[NoFlow EXCEPT !.stage = "browsing", !.limit = l] : l \in TraverseLimits}
  /\ req = BlankReq
  /\ resp = BlankResp
  /\ calls = <<>>

NextTraverse == Traverse

SpecTraverse == InitTraverse /\ [][NextTraverse]_vars /\ WF_vars(Traverse)

\* The authorize route of both workers.
NextAuthorizeRoutes == Authorize \/ ReadOnlyAuthorize \/ Tick

SpecAuthorizeRoutes == Init /\ [][NextAuthorizeRoutes]_vars

----------------------------------------------------------------------------
(* Properties *)

IsCommit(c) == c.op = "createOrUpdateFileContents"

IsLookup(c) == c.op = "getAuthenticated"

\* The login the provider reported to this request, if it reported one.
ReportedLogins == {calls[i].login : i \in {j \in 1..Len(calls) : IsLookup(calls[j]) /\ calls[j].ok}}

\* The state object of the callback request, when it decodes.
ReqStateDecodes == req.state # None /\ req.state[1].b64

ReqStateObject == req.state[1].text

\* C1: in AuthorizedWrite a commit happens only after the identity provider
\* has reported, for the presented bearer token, the owner's login; when the
\* reported login differs the response is 403 and no commit is made.
C1_CommitOnlyAfterOwnerCheck ==
  resp.route = "write" =>
    /\ \A i \in 1..Len(calls) :
         IsCommit(calls[i]) =>
           \E j \in 1..(i - 1) :
             /\ IsLookup(calls[j]) /\ calls[j].ok
             /\ calls[j].login = "octocat"
             /\ req.auth # None
             /\ Bearer(calls[j].token[1]) = req.auth[1]
    /\ (\E l \in ReportedLogins : l # "octocat") =>
         /\ resp.status = 403
         /\ \A i \in 1..Len(calls) : ~IsCommit(calls[i])
    /\ resp.status = 201 => \E i \in 1..Len(calls) : IsCommit(calls[i]) /\ calls[i].ok

C1_Witness ==
  /\ resp.route = "write" /\ resp.status = 201
  /\ Len(calls) = 2 /\ IsLookup(calls[1]) /\ IsCommit(calls[2]) /\ calls[2].ok
  /\ Len(store) > 0

\* C2: in ProviderCallback, when the login reported for the exchanged token
\* differs from the owner login, the response is 403 and carries no redirect.
C2_CallbackRejectsOtherLogin ==
  (resp.route = "callback" /\ \E l \in ReportedLogins : l # "octocat") =>
    /\ resp.status = 403
    /\ resp.location = None

C2_Witness ==
  /\ resp.route = "callback"
  /\ "Octocat" \in ReportedLogins
  /\ resp.status = 403

\* C3: ProviderCallback rejects every state whose carried signature is not
\* the HMAC of its other fields under the server secret, before any call to
\* the identity provider and before any redirect.
C3_UnsignedStateRejected ==
  (/\ resp.route = "callback"
   /\ req.state # None
   /\ ~(/\ ReqStateDecodes
        /\ JsonGet(ReqStateObject, "sig")
             = Some(HmacSha256(ServerSecret, WithoutSig(ReqStateObject))))) =>
    /\ resp.status \in {400, 500}
    /\ calls = <<>>
    /\ resp.location = None

\* C4: every successful ProviderCallback redirect goes to a URI that was
\* earlier presented as redirect_uri to the authorize route.
C4_RedirectOnlyToPresentedUri ==
  (resp.route = "callback" /\ resp.status = 302) =>
    /\ ReqStateDecodes
    /\ JsonGet(ReqStateObject, "clientRedirect") # None
    /\ JsonGet(ReqStateObject, "clientRedirect")[1] \in presented

\* C5: a state is accepted when the callback runs at most 600 seconds after
\* issuedAt and rejected as expired, without any call to the identity
\* provider, when it runs later than that.
C5_ExpiryWindow ==
  (/\ resp.route = "callback"
   /\ req.code # None
   /\ ReqStateDecodes
   /\ JsonGet(ReqStateObject, "ts") # None) =>
    LET age == req.t - JsonGet(ReqStateObject, "ts")[1]
    IN /\ age > 600 * 1000 =>
            /\ resp.status = 400 /\ resp.text = "State expired"
            /\ calls = <<>>
            /\ resp.location = None
       /\ age <= 600 * 1000 =>
            /\ resp.text # "State expired"
            /\ Len(calls) >= 1 /\ calls[1].op = "access_token"

C5_Witness ==
  /\ resp.route = "callback"
  /\ ReqStateDecodes
  /\ JsonGet(ReqStateObject, "ts") # None
  /\ req.t - JsonGet(ReqStateObject, "ts")[1] = 601000
  /\ resp.text = "State expired"

DecodeEscape(e) ==
  CASE e = <<"%", "2", "B">> -> "+"
    [] e = <<"%", "3", "F">> -> "?"
    [] e = <<"%", "2", "6">> -> "&"
    [] e = <<"%", "3", "D">> -> "="
    [] e = <<"%", "2", "F">> -> "/"
    [] e = <<"%", "3", "A">> -> ":"
    [] e = <<"%", "2", "5">> -> "%"
    [] OTHER -> "U+FFFD"

\* What a client reads back from a query parameter value.
RECURSIVE DecodeURIComponent(_)
DecodeURIComponent(s) ==
  IF s = <<>> THEN <<>>
  ELSE IF s[1] = "%" /\ Len(s) >= 3
  THEN <<DecodeEscape(SubSeq(s, 1, 3))>> \o DecodeURIComponent(SubSeq(s, 4, Len(s)))
  ELSE <<s[1]>> \o DecodeURIComponent(Tail(s))

\* C6 as claimed: once a callback has accepted a state, every later callback
\* presenting the same state is rejected.
C6_StateConsumedOnce ==
  (resp.route = "callback" /\ req.seenBefore) =>
    /\ resp.status # 302
    /\ calls = <<>>

\* C6 as amended: the bridge keeps no record of accepted states, so a later
\* callback presenting an already accepted state passes the state check
\* again while it is at most 600 seconds old (and redirects again when the
\* provider confirms the owner); it is rejected only once it has expired.
C6_ReplayAcceptedUntilExpiry ==
  (/\ resp.route = "callback" /\ req.seenBefore /\ req.code # None
   /\ JsonGet(ReqStateObject, "ts") # None) =>
    LET age == req.t - JsonGet(ReqStateObject, "ts")[1]
    IN /\ age <= 600 * 1000 =>
            /\ calls # <<>>
            /\ resp.status # 400
            /\ "octocat" \in ReportedLogins => resp.status = 302
       /\ age > 600 * 1000 => resp.status = 400 /\ calls = <<>>

C6_Witness ==
  /\ resp.route = "callback" /\ req.seenBefore
  /\ JsonGet(ReqStateObject, "ts") # None
  /\ req.t - JsonGet(ReqStateObject, "ts")[1] = 599000
  /\ resp.status = 302

C9_InvalidGrantRejected ==
  (/\ resp.route = "token" /\ req.tbody.valid
   /\ \/ req.tbody.grant_type # Some("authorization_code")
      \/ req.tbody.code = None) =>
    /\ resp.status = 400
    /\ resp.text = "invalid_request"
    /\ resp.access_token = None

C9_Witness ==
  /\ resp.route = "token" /\ resp.status = 400
  /\ req.tbody.grant_type = Some("client_credentials")
  /\ req.tbody.code = Some(TokOwner)

\* C10: the authorize route answers 400 without a redirect when redirect_uri
\* is missing, and otherwise 302 with a state that carries exactly the given
\* redirect_uri and the current time as issuedAt.
C10_AuthorizeContract ==
  resp.route = "authorize" =>
    IF req.redirect_uri = None \/ req.redirect_uri = Some(<<>>)
    THEN resp.status = 400 /\ resp.location = None
    ELSE /\ resp.status = 302
         /\ resp.state # None
         /\ resp.state[1].b64
         /\ JsonGet(resp.state[1].text, "clientRedirect") = req.redirect_uri
         /\ JsonGet(resp.state[1].text, "ts") = Some(req.t)

\* C11: every authorize request that carries client_id, redirect_uri and
\* response_type=code is answered 302 with a Location that starts with the
\* supplied redirect_uri followed by "?code=" ("&code=" when the redirect_uri
\* already has a "?").  The bridge's authorize route reads redirect_uri only,
\* so there the request counts as soon as redirect_uri is supplied.
C11_AuthorizeRedirectsToClient ==
  LET carried ==
        \/ /\ resp.route = "readonly-authorize"
           /\ ~IsMissing(req.client_id) /\ ~IsMissing(req.redirect_uri)
           /\ req.response_type = Some("code")
        \/ /\ resp.route = "authorize" /\ ~IsMissing(req.redirect_uri)
  IN carried =>
       /\ resp.status = 302
       /\ resp.location # None
       /\ StartsWith(resp.location[1],
                     req.redirect_uri[1] \o <<Separator(req.redirect_uri[1])>>
                       \o CodeParam)

CommitCalls == {i \in 1..Len(calls) : IsCommit(calls[i])}

\* The Authorization header of the request does not start with "Bearer ".
NoBearer == req.auth = None \/ ~StartsWith(req.auth[1], BearerPrefix)

\* C13: a post-creation request whose Authorization header is absent or is
\* not "Bearer <token>" is answered 401, and the handler makes no call to
\* the identity provider and no commit.
C13_NoBearerIs401 ==
  (resp.route = "write" /\ NoBearer) =>
    /\ resp.status = 401
    /\ calls = <<>>

C13_Witness ==
  /\ resp.route = "write" /\ resp.status = 401 /\ calls = <<>>
  /\ req.auth = Some(<<"b", "e", "a", "r", "e", "r", " ">> \o TokOwner)
  /\ Len(store) = 1

\* C14: when GitHub OAuth is not configured, every post-creation request is
\* answered 401, whatever its Authorization header, and nothing is committed.
C14_UnconfiguredIs401 ==
  (resp.route = "write" /\ env = UnconfiguredEnv) =>
    /\ resp.status = 401
    /\ CommitCalls = {}
    /\ store = <<>>

\* C15: when the commit of a write fails, the request is answered 500, not
\* 201, and the handler does not try the commit again.
C15_CommitFailureIs500 ==
  (resp.route = "write" /\ \E i \in CommitCalls : ~calls[i].ok) =>
    /\ resp.status = 500
    /\ resp.entity = None
    /\ Cardinality(CommitCalls) = 1

C15_Witness ==
  /\ resp.route = "write" /\ resp.status = 500
  /\ Len(calls) = 2 /\ IsLookup(calls[1]) /\ calls[1].login = "octocat"
  /\ IsCommit(calls[2]) /\ ~calls[2].ok
  /\ store = <<>>

\* C16: a write answered 201 made exactly one commit, which succeeded, and
\* the status it returns has the content, visibility and sensitive of the
\* request body (empty content, "public" and false for a field that is absent
\* or empty) and the clock's value at the time of the response as its id.
C16_CreatedStatusEchoesRequest ==
  (resp.route = "write" /\ resp.status = 201) =>
    LET b == req.wbody
        st == resp.entity[1]
    IN /\ Cardinality(CommitCalls) = 1
       /\ \A i \in CommitCalls : calls[i].ok /\ calls[i].file = Some(store[Len(store)])
       /\ st.content = (IF b.status = None THEN <<>> ELSE b.status[1])
       /\ st.visibility = (IF b.visibility \in {None, Some("")} THEN "public"
                           ELSE b.visibility[1])
       /\ st.sensitive = (IF b.sensitive = None THEN FALSE ELSE b.sensitive[1])
       /\ st.id = now

C16_Witness ==
  /\ resp.route = "write" /\ resp.status = 201
  /\ req.wbody.status = Some(<<"h", "i">>)
  /\ resp.entity[1].content = <<"h", "i">>
  /\ resp.entity[1].visibility = "unlisted"
  /\ resp.entity[1].sensitive
  /\ now > req.t

\* A step that handles a post-creation request.
WriteStep == req'.route = "write"

\* The answer to a read is determined by the request and the published data.
ReadFromSnapshot ==
  /\ resp.route = "timeline" => resp = TimelineResponse(snapshot, req.limit)
  /\ resp.route = "status" => resp = StatusResponse(snapshot, req.id)

\* C17: a write leaves the published data as it is, and reads are answered
\* from the published data alone; so after any number of writes every
\* timeline read and every status read answers what it answered before.
C17_WriteLeavesSnapshot ==
  /\ [][WriteStep => snapshot' = snapshot]_vars
  /\ []ReadFromSnapshot

\* Two posts were committed and the timeline still is the published one.
C17_Witness ==
  /\ Len(store) = 2
  /\ resp.route = "timeline" /\ resp.status = 200 /\ req.limit = None
  /\ resp.page = PublishedSnapshot.statuses
  /\ snapshot = PublishedSnapshot

\* The request for the account's statuses has been answered.
Paginated == resp.route = "account-statuses" /\ req.id = AccountId

\* The request asks for a page size of at least one, or for none.
PlainLimit ==
  \/ req.limit = None
  \/ /\ ~ParseInt(req.limit[1]).nan
     /\ ParseInt(req.limit[1]).val >= 1

\* The page size then: the requested one, at most 40; 20 when none is asked.
PageSize ==
  IF req.limit = None THEN 20
  ELSE IF ParseInt(req.limit[1]).val > 40 THEN 40
  ELSE ParseInt(req.limit[1]).val

\* The first n elements of a list.
Take(list, n) == SubSeq(list, 1, IF n < Len(list) THEN n ELSE Len(list))

\* The position (from 1) of the post with this id in the index, 0 if none.
PositionOf(id) ==
  IF \E i \in 1..Len(snapshot.statuses) : snapshot.statuses[i].id = id
  THEN CHOOSE i \in 1..Len(snapshot.statuses) : snapshot.statuses[i].id = id
  ELSE 0

C19_SinceIdPage ==
  (/\ Paginated /\ PlainLimit
   /\ req.since_id # None /\ PositionOf(req.since_id[1]) > 0
   /\ req.max_id = None /\ req.min_id = None) =>
    /\ resp.status = 200
    /\ resp.page = Take(SubSeq(snapshot.statuses, 1, PositionOf(req.since_id[1]) - 1),
                        PageSize)

C19_Witness ==
  /\ Paginated
  /\ snapshot.statuses = NewestFirst(1..5)
  /\ req.since_id = Some("P2") /\ req.max_id = None /\ req.min_id = None
  /\ req.limit = Some(<<"2">>)
  /\ resp.page = <<Post(5), Post(4)>>

\* C20: with min_id naming the post at position i and no other cursor, the
\* page is the posts at positions i-1, i-2, ..., 1 in that order, cut to the
\* page size from the head.
C20_MinIdPage ==
  (/\ Paginated /\ PlainLimit
   /\ req.min_id # None /\ PositionOf(req.min_id[1]) > 0
   /\ req.max_id = None /\ req.since_id = None) =>
    /\ resp.status = 200
    /\ resp.page = Take([k \in 1..(PositionOf(req.min_id[1]) - 1) |->
                           snapshot.statuses[PositionOf(req.min_id[1]) - k]],
                        PageSize)

C20_Witness ==
  /\ Paginated
  /\ snapshot.statuses = NewestFirst(1..5)
  /\ req.min_id = Some("P2") /\ req.max_id = None /\ req.since_id = None
  /\ req.limit = Some(<<"2">>)
  /\ resp.page = <<Post(3), Post(4)>>

\* The request with its highest-precedence cursor only (max_id over
\* since_id over min_id).
TopCursorOnly(r) ==
  IF Given(r.max_id) THEN [r EXCEPT !.since_id = None, !.min_id = None]
  ELSE IF Given(r.since_id) THEN [r EXCEPT !.min_id = None]
  ELSE r

\* C21: when several cursors are supplied, the page is the page of the same
\* request with only the highest-precedence cursor; the others are ignored.
C21_OnlyTopCursorHonored ==
  Paginated =>
    resp.page = handleAccountStatuses(req.id, TopCursorOnly(req),
                                      snapshot.statuses).page

\* The ids of the posts in the index.
IndexIds == {snapshot.statuses[i].id : i \in 1..Len(snapshot.statuses)}

\* C22: a cursor whose id is not in the list changes nothing: the page is
\* the page of the same request without that cursor, whatever the limit and
\* the other cursors are.
C22_UnknownCursorIsNoCursor ==
  Paginated =>
    /\ (req.max_id # None /\ req.max_id[1] \notin IndexIds) =>
         resp = handleAccountStatuses(req.id, [req EXCEPT !.max_id = None],
                                      snapshot.statuses)
    /\ (req.since_id # None /\ req.since_id[1] \notin IndexIds) =>
         resp = handleAccountStatuses(req.id, [req EXCEPT !.since_id = None],
                                      snapshot.statuses)
    /\ (req.min_id # None /\ req.min_id[1] \notin IndexIds) =>
         resp = handleAccountStatuses(req.id, [req EXCEPT !.min_id = None],
                                      snapshot.statuses)

\* The index holds P5, P4, P2, P1; max_id=P3 is stale and the page is the
\* whole index.
C22_Witness ==
  /\ Paginated
  /\ snapshot.statuses = NewestFirst({1, 2, 4, 5})
  /\ req.max_id = Some("P3") /\ req.since_id = None /\ req.min_id = None
  /\ req.limit = None
  /\ resp.page = NewestFirst({1, 2, 4, 5})

\* The posts left after the cursor filters, before the cut to the limit.
Filtered ==
  AfterMinId(AfterSinceId(AfterMaxId(snapshot.statuses, req.max_id), req.since_id),
             req.min_id)

Smaller(a, b) == IF a < b THEN a ELSE b

\* C23: for every numeric limit the page has min(c, n) posts, c being the
\* limit clamped to [1, 40] and n the number of posts left by the cursors.
C23_LimitClamped ==
  (Paginated /\ req.limit # None /\ ~ParseInt(req.limit[1]).nan) =>
    LET l == ParseInt(req.limit[1]).val
        c == IF l < 1 THEN 1 ELSE IF l > 40 THEN 40 ELSE l
    IN Len(resp.page) = Smaller(c, Len(Filtered))

\* C24: when limit is absent or not numeric the page has min(20, n) posts.
C24_DefaultLimit ==
  (Paginated /\ (req.limit = None \/ ParseInt(req.limit[1]).nan)) =>
    Len(resp.page) = Smaller(20, Len(Filtered))

\* A data request of the bridge has been answered.
Answered == req.route = "data" /\ resp.route # "none"

TimelinePaths ==
  {<<"timelines", "public">>, <<"timelines", "home">>, <<"accounts", "7", "statuses">>}

\* C25: when posts.json is missing the data request is answered 500 'Data
\* not found', when it cannot be read 500 'Failed to load data', in both
\* cases with no page and no entity; over a loaded snapshot a timeline is
\* answered 200 whatever the list and the limit.
C25_LoadFailureIs500 ==
  Answered =>
    /\ ~data[1].found => resp = Reply("data", 500, "Data not found")
    /\ (data[1].found /\ ~data[1].valid) => resp = Reply("data", 500, "Failed to load data")
    /\ (data[1].found /\ data[1].valid /\ req.path \in TimelinePaths) =>
         resp.status = 200

C25_Witness ==
  /\ Answered
  /\ data = Some(Snapshot(TRUE, FALSE, <<>>))
  /\ req.path = <<"timelines", "public">>
  /\ resp.status = 500 /\ resp.text = "Failed to load data" /\ resp.page = <<>>

\* C26: the response to a data request is the result for the one snapshot
\* the request loaded, which is one of the snapshots current while the
\* request was in flight.
C26_OneSnapshotPerResponse ==
  Answered =>
    /\ data # None /\ data[1] \in seen
    /\ \E s \in seen : resp = DataResponse(req, s)

C26_Witness ==
  /\ Answered
  /\ seen = {PublishedSnapshot, Snapshot(TRUE, TRUE, NewestFirst(1..4))}
  /\ data = Some(PublishedSnapshot)
  /\ snapshot # PublishedSnapshot
  /\ req.path = <<"timelines", "public">> /\ req.limit = None
  /\ resp.page = NewestFirst(1..3)

\* A data request answered from a snapshot that loaded.
Loaded == Answered /\ data # None /\ data[1].found /\ data[1].valid

LoadedIds == {data[1].statuses[i].id : i \in 1..Len(data[1].statuses)}

\* C27: GET /api/v1/statuses/:id answers 200 with the post of the snapshot
\* whose id is :id, and 404 'Record not found' when the snapshot has no
\* post with that id.
C27_StatusById ==
  (Loaded /\ Len(req.path) = 2 /\ req.path[1] = "statuses") =>
    IF req.path[2] \in LoadedIds
    THEN /\ resp.status = 200
         /\ resp.entity # None
         /\ resp.entity[1].id = req.path[2]
         /\ \E i \in 1..Len(data[1].statuses) : resp.entity[1] = data[1].statuses[i]
    ELSE resp = Reply("status", 404, "Record not found")

C27_Witness ==
  /\ Loaded
  /\ data = Some(PublishedSnapshot)
  /\ req.path = <<"statuses", "P2">>
  /\ resp.status = 200 /\ resp.entity = Some(Post(2))

\* C28: GET /api/v1/accounts/:id answers 200 with the account when :id is
\* '1' or the account's id and 404 'Record not found' for any other id;
\* accounts/verify_credentials answers the account, and accounts/lookup
\* answers the account when acct names it, neither being read as an id.
C28_AccountById ==
  (Loaded /\ Len(req.path) = 2 /\ req.path[1] = "accounts") =>
    IF req.path[2] = "verify_credentials"
    THEN resp.status = 200 /\ resp.entity = Some(data[1].account)
    ELSE IF req.path[2] = "lookup"
    THEN IF req.acct \in {Some(data[1].account.username), Some(data[1].account.acct)}
         THEN resp.status = 200 /\ resp.entity = Some(data[1].account)
         ELSE resp.status = 404 /\ resp.text = "Record not found"
    ELSE IF req.path[2] = "1" \/ req.path[2] = data[1].account.id
    THEN resp.status = 200 /\ resp.entity = Some(data[1].account)
    ELSE resp = Reply("account", 404, "Record not found")

C28_Witness ==
  /\ Loaded
  /\ req.path = <<"accounts", AccountId>>
  /\ resp.status = 200 /\ resp.entity = Some(Account)

\* verifyState has returned or thrown.
Verified == req.route \in {"sign", "tampered"} /\ resp.route # "none"

\* C29: a state signed and verified under the same secret within the
\* expiry window comes back unchanged, whatever the state object; a state
\* altered after signing, or verified under another secret, is refused.
C29_SignVerifyRoundTrip ==
  Verified =>
    /\ (req.route = "sign" /\ req.secret \in {"", ServerSecret}
          /\ ~IsExpired(req.obj, req.t)) =>
         (resp.status = 200 /\ resp.entity = Some(req.obj))
    /\ (req.route = "tampered" /\ req.secret = ServerSecret) => resp.status = 0
    /\ (req.route = "sign" /\ req.secret \notin {"", ServerSecret}) => resp.status = 0

\* C30: every request that has been handled has an HTTP response, with a
\* 4xx or 500 status when something failed inside the handler; no request
\* ends in an exception that leaves the handler.
C30_EveryRequestAnswered ==
  resp.route # "none" => resp.status \in {200, 302, 400, 401, 403, 404, 405, 500}

ProviderCalls == {i \in 1..Len(calls) : calls[i].op \in {"access_token", "getAuthenticated"}}

LoadCalls == {i \in 1..Len(calls) : calls[i].op = "DATA.get"}

\* C32: a request makes at most two calls to the identity provider and at
\* most one call to the content store or the snapshot store, never one to
\* each; it makes no call a second time; the OAuth and write routes do not
\* load the snapshot, and a data request loads it once.
C32_CallsPerRequest ==
  /\ Cardinality(ProviderCalls) <= 2
  /\ Cardinality(CommitCalls \cup LoadCalls) <= 1
  /\ \A i, j \in 1..Len(calls) : calls[i].op = calls[j].op => i = j
  /\ resp.route \in {"authorize", "callback", "token", "write"} => LoadCalls = {}
  /\ resp.route \in {"timeline", "status"} => (Len(calls) = 1 /\ LoadCalls = {1})

C32_Witness ==
  /\ resp.route = "callback" /\ resp.status = 500
  /\ Len(calls) = 1 /\ calls[1].op = "access_token" /\ ~calls[1].ok

\* The provider answered the token request of the callback without a token.
NoTokenReturned ==
  /\ resp.route = "callback"
  /\ calls # <<>> /\ calls[1].op = "access_token"
  /\ calls[1].ok /\ calls[1].token = None

\* C33: when the provider's token endpoint returns no access token, the
\* callback answers 500 'GitHub auth failed', does not look the identity up
\* and does not redirect.
C33_NoTokenIs500 ==
  NoTokenReturned =>
    /\ resp.status = 500 /\ resp.text = "GitHub auth failed"
    /\ Len(calls) = 1
    /\ resp.location = None

C33_Witness ==
  /\ NoTokenReturned
  /\ req.code = Some("code-bad")
  /\ resp.status = 500

\* The published posts.json is a build of the posts directory.
Built == snapshot.found /\ snapshot.valid

C35_IdsDistinct ==
  Built =>
    \A i, j \in 1..Len(snapshot.statuses) :
      snapshot.statuses[i].id = snapshot.statuses[j].id => i = j

\* The index is in newest-first order.
IndexNewestFirst ==
  \A i, j \in 1..Len(snapshot.statuses) :
    i < j => snapshot.statuses[i].created_at > snapshot.statuses[j].created_at

NoCursor == ~Given(req.max_id) /\ ~Given(req.since_id) /\ ~Given(req.min_id)

C37_TraversalIsComplete ==
  /\ [](flow.stage = "done" => flow.pages = snapshot.statuses)
  /\ [](flow.stage = "browsing" =>
          flow.pages = Take(snapshot.statuses, Len(flow.pages)))
  /\ <>(flow.stage = "done")

C37_Witness ==
  /\ flow.stage = "done"
  /\ flow.limit = Some(<<"2">>)
  /\ flow.pages = NewestFirst(1..5)
  /\ resp.page = <<>> /\ req.max_id = Some("P1")

\* A write has been answered 201; its second call is the commit.
Created == resp.route = "write" /\ resp.status = 201

\* C38: the id of the status a successful write returns is the millisecond
\* timestamp of the committed file's name, and the id the post has in the
\* snapshot the build makes of the store.
C38_IdIsFileTimestamp ==
  Created =>
    LET file == calls[2].file[1]
        built == Build(store, now).statuses
    IN /\ resp.entity[1].id = file.path.ms
       /\ ToString(resp.entity[1].id) = BuiltStatus(file, now).id
       /\ \E i \in 1..Len(built) : built[i].id = ToString(resp.entity[1].id)

\* The write handled last sent a commit for a path that another write's
\* file already holds.
CommitCollides ==
  /\ resp.route = "write"
  /\ \E i \in CommitCalls :
       /\ ~calls[i].ok
       /\ PathTaken(store, calls[i].file[1].path)

\* C39: the commits of two writes by the owner never go to the same path,
\* also when both writes read the clock in the same millisecond; no write is
\* refused because another write's file holds its path.
C39_WritesNeverCollide ==
  /\ \A i, j \in 1..Len(store) : store[i].path = store[j].path => i = j
  /\ ~CommitCollides

\* What the handler of the last request answers, and which calls it makes,
\* when that request is the first one after start: computed from the
\* request, the clock it read and the collaborators' answers, for every way
\* the collaborators can answer.
FirstOutcomes ==
  CASE req.route = "authorize" ->
         {[resp |-> AuthorizeResponse(req.redirect_uri, req.t), calls |-> <<>>]}
    [] req.route = "callback" ->
         {CallbackOutcome(req.code, req.state, net, req.t) : net \in NetInputs}
    [] req.route = "token" ->
         {[resp |-> TokenResponse(req.tbody, req.t), calls |-> <<>>]}
    [] req.route = "timeline" ->
         {[resp |-> TimelineResponse(snapshot, req.limit),
           calls |-> <<LoadCall(snapshot)>>]}
    [] req.route = "status" ->
         {[resp |-> StatusResponse(snapshot, req.id),
           calls |-> <<LoadCall(snapshot)>>]}
    [] OTHER -> {}

============================================================================
